---- MODULE Spec2Model ----
(***************************************************************************)
(* A model of the IDS/ADS feature pipeline of the repository:              *)
(*   - the aggregation pass  (extraction-pipeline/stat_into_csv.py),       *)
(*   - the feature extractors (extraction-pipeline/                        *)
(*     data_extraction_functions.py),                                      *)
(*   - phrase segmentation   (extraction-pipeline/phrase_split.py).        *)
(*                                                                         *)
(* Numbers.  The program computes in IEEE doubles; the model computes in   *)
(* fixed point: every series value is an integer, np.mean / np.std /       *)
(* np.percentile round their result down to the unit, and np.log returns   *)
(* the logarithm in hundredths (Ln100).                                    *)
(***************************************************************************)
EXTENDS Integers, Sequences, FiniteSets, TLC

VARIABLES
    \* ---- stat_into_csv.main ----
    pc,               \* where main() stands
    pass,             \* "references" or "syntheses": which of the two loops runs
    file_idx,         \* index of the current file in ref_files / synth_files
    phrases,          \* number of phrase keys of the current file
    phrase_idx,       \* index of the next phrase key to process
    stat_idx,         \* index of the next stat_name to process
    stat_name,        \* the stat_name of the entry read last
    data,             \* the entry read last
    clip_level_data,  \* stat_name -> pooled series of the current file
    phrase_stats,     \* key -> values collected over the phrases of the file
    empty_data_count, \* the skip counter
    all_ref_stats,    \* file_name -> row
    all_synth_stats,  \* file_name -> row
    mat_data_dict,    \* the entries of the .mat store read so far
    stdout,           \* what main() printed
    csv,              \* the tables written to disk
    \* ---- collect_data.process_files on one phrase clip ----
    ext_pc,              \* the extractor call that comes next
    pitch,               \* pitch.selected_array['frequency'] of the clip
    magnitude,           \* the magnitude spectrogram, one column per frame
    f0_values,           \* what get_f0_statistics returned
    f0_adjusted,         \* the F0 series aligned to the spectrogram
    spectral_tilt_values, \* what get_spectral_tilt_statistics returned
    \* ---- phrase_split.process_files ----
    split_pc,            \* "loop" while the TextGrid files are gone through
    files_done,          \* the number of TextGrid files gone through
    textgrid_file,       \* the TextGrid file of the last iteration
    exported,            \* the clips written so far
    \* ---- the extrema-to-extrema delta variants on one contour ----
    peak_pc,             \* the variant that runs next
    log_f0,              \* the voiced log-F0 contour
    thr_line,            \* valid_maxima, valid_minima, slopes of ..._thr_line
    thr_change,          \* valid_maxima, valid_minima, slopes of ..._thr_change
    \* ---- single calls of calculate_relevant_statistics and of two extractors ----
    stats_args,          \* the arguments of a call of calculate_relevant_statistics
    stats_result,        \* how the call ended, and the record it returned
    syl_args,            \* the inputs of a call of get_syllable_duration_statistics
    syl_result,          \* how the call ended, and the durations it returned
    delta_args,          \* the arguments of a call of get_f0_delta_statistics
    delta_result,        \* how the call ended, and what it returned
    \* ---- collect_data.collect ----
    col_pc,              \* "loop" while the phrase clips are gone through
    col_idx,             \* the number of phrase clips gone through
    col_file,            \* the phrase clip of the last iteration
    results_dicts,       \* the entries of the phrase clips
    mat_file,            \* the store on disk
    \* ---- csv_data_extraction.calculate_measurements ----
    old_pc,              \* "list", "file", "done" or "raised"
    old_directory,       \* the number of directories listed
    old_files,           \* the number of .wav files of the directory
    old_file,            \* the number of its files measured
    old_delta,           \* how the last call of get_f0_delta_statistics went
    old_results,         \* directory -> rows
    old_csv,             \* the tables written to disk
    \* ---- segmentation, extraction and aggregation in a row ----
    pipe_pc,             \* the stage that runs: "segment", "aggregate", ...
    pipe_idx,            \* the number of recordings the stage has gone through
    phrase_dir,          \* the clips in the phrase directories
    pipe_store,          \* the feature store on disk: the keys it holds
    pipe_rows,           \* the recordings main() has made a row for
    pipe_csv,            \* the tables written to disk
    \* ---- verify_commonvoice.concatenate_clips ----
    cv_pc,               \* "client", "clip", "rest" or "done"
    client_clips,        \* the clients of the TSV file and their clips on disk
    pause_audio,         \* len(pause_audio)
    speaker_file,        \* the lines of speaker_id.txt
    client_idx,          \* the number of the client in top_5_clients
    clip_idx,            \* the number of clips of the client gone through
    segment_count,       \* the segments exported for the client
    current_segment,     \* len(current_segment)
    current_duration,    \* the duration counted for the segment
    cv_output            \* the files of output_dir: (speaker, number) -> length

aggVars == <<pc, pass, file_idx, phrases, phrase_idx, stat_idx, stat_name, data,
             clip_level_data, phrase_stats, empty_data_count, all_ref_stats,
             all_synth_stats, mat_data_dict, stdout, csv>>

extVars == <<ext_pc, pitch, magnitude, f0_values, f0_adjusted, spectral_tilt_values>>

splitVars == <<split_pc, files_done, textgrid_file, exported>>

peakVars == <<peak_pc, log_f0, thr_line, thr_change>>

funVars == <<stats_args, stats_result, syl_args, syl_result, delta_args, delta_result>>

colVars == <<col_pc, col_idx, col_file, results_dicts, mat_file>>

oldVars == <<old_pc, old_directory, old_files, old_file, old_delta, old_results,
             old_csv>>

pipeVars == <<pipe_pc, pipe_idx, phrase_dir, pipe_store, pipe_rows, pipe_csv>>

cvVars == <<cv_pc, client_clips, pause_audio, speaker_file, client_idx, clip_idx,
            segment_count, current_segment, current_duration, cv_output>>

vars == <<aggVars, extVars, splitVars, peakVars, funVars, colVars, oldVars, pipeVars, cvVars>>

----------------------------------------------------------------------------
(* Bounds of the model *)

\* a file has 1..MaxPhrases phrase keys
MaxPhrases == 2
\* a phrase has 0..MaxVoiced voiced frames
MaxVoiced == 2

----------------------------------------------------------------------------
(* Fixed-point numerics *)

RECURSIVE Sum(_)
Sum(s) == IF s = <<>> THEN 0 ELSE Head(s) + Sum(Tail(s))

RECURSIVE Concat(_)
Concat(ss) == IF ss = <<>> THEN <<>> ELSE Head(ss) \o Concat(Tail(ss))

RECURSIVE Insert(_, _)
Insert(x, s) ==
    IF s = <<>> THEN <<x>>
    ELSE IF x <= Head(s) THEN <<x>> \o s
    ELSE <<Head(s)>> \o Insert(x, Tail(s))

RECURSIVE Sort(_)
Sort(s) == IF s = <<>> THEN <<>> ELSE Insert(Head(s), Sort(Tail(s)))

Abs(x) == IF x < 0 THEN 0 - x ELSE x

\* largest r in lo..hi with r*r <= n  (lo*lo <= n < (hi+1)*(hi+1))
RECURSIVE SqrtBetween(_, _, _)
SqrtBetween(n, lo, hi) ==
    IF lo >= hi THEN lo
    ELSE LET mid == (lo + hi + 1) \div 2
         IN  IF mid * mid <= n THEN SqrtBetween(n, mid, hi)
             ELSE SqrtBetween(n, lo, mid - 1)

\* some h with h*h > n
RECURSIVE SqrtAbove(_, _)
SqrtAbove(n, h) == IF h * h > n THEN h ELSE SqrtAbove(n, 2 * h)

np_sqrt(n) == SqrtBetween(n, 0, SqrtAbove(n, 1))

\* floor(log2(x)) and 2^floor(log2(x)), x >= 1
RECURSIVE Pow2Below(_, _)
Pow2Below(x, p) == IF 2 * p > x THEN p ELSE Pow2Below(x, 2 * p)

RECURSIVE Log2Floor(_)
Log2Floor(x) == IF x < 2 THEN 0 ELSE 1 + Log2Floor(x \div 2)

\* 100 * ln(x) for x >= 1: 100*ln(2) = 69 per doubling, linear in between
Ln100(x) ==
    LET p == Pow2Below(x, 1)
    IN  69 * Log2Floor(x) + (69 * (x - p)) \div p

\* np.log of one element; the log of zero or of a negative number is not a
\* finite number
np_log(x) == IF x > 0 THEN Ln100(x) ELSE IF x = 0 THEN "-inf" ELSE "nan"

\* 100 * ln(1e-10)
LnEpsilon == 0 - 2303

\* np.log(x + 1e-10) of one element, x >= 0
np_log_eps(x) == IF x = 0 THEN LnEpsilon ELSE Ln100(x)

\* np.log(abs_data + 1e-10) of one element
np_log_abs_eps(x) == np_log_eps(Abs(x))

\* np.polyfit(x, y, 1)[0] for x = xs[1..n]: the least-squares slope
polyfit_slope(xs, ys) ==
    LET n == Len(xs)
        xy == [i \in 1..n |-> xs[i] * ys[i]]
        xx == [i \in 1..n |-> xs[i] * xs[i]]
    IN  (n * Sum(xy) - Sum(xs) * Sum(ys)) \div (n * Sum(xx) - Sum(xs) * Sum(xs))

np_mean(a) == Sum(a) \div Len(a)

\* sqrt(mean(|a - mean(a)|^2)) = sqrt((n*sum(a^2) - sum(a)^2) / n^2)
np_std(a) ==
    LET n == Len(a)
        sq == [i \in 1..n |-> a[i] * a[i]]
    IN  np_sqrt((n * Sum(sq) - Sum(a) * Sum(a)) \div (n * n))

\* np.percentile(a, q), method "linear": position (n-1)*q/100 in the sorted
\* array, interpolated between its two neighbours
np_percentile(a, q) ==
    LET s == Sort(a)
        pos == (Len(a) - 1) * q
        k == pos \div 100
        r == pos % 100
    IN  IF r = 0 THEN s[k + 1]
        ELSE s[k + 1] + (r * (s[k + 2] - s[k + 1])) \div 100

\* np.percentile of an empty array raises IndexError (np.mean and np.std of
\* it only warn and give nan)
np_percentile_raises(a) == Len(a) = 0

----------------------------------------------------------------------------
(* Dictionaries *)

EmptyDict == <<>>

Put(d, k, v) == [x \in (DOMAIN d) \cup {k} |-> IF x = k THEN v ELSE d[x]]

\* {**a, **b}
Merge(a, b) == [x \in (DOMAIN a) \cup (DOMAIN b) |-> IF x \in DOMAIN b THEN b[x] ELSE a[x]]

----------------------------------------------------------------------------
(* stat_into_csv.py: inputs *)

\* the .wav files os.listdir finds under REF_DIR and SYNTH_DIR
ref_files == <<"IDS_a.wav">>
synth_files == <<"xtts_IDS_a.wav">>

\* the stat_name loop of main()
StatNames == <<"f0", "f0_delta", "spectral_tilt", "syllable_durations">>

\* What the store holds for one phrase of n voiced frames (F0 > 100 Hz), as
\* the extractors leave it: n f0 values above 100, n tilt values, the
\* durations of the voiced syllables, and for f0_delta the n slopes of the
\* sliding window, or, with fewer than 2 voiced frames, the degenerate entry
\* of three elements whose first two are zero (its third element, an empty
\* list in the store, is n in the model: 0 or 1).
f0_frame(i) == 100 + 50 * i
tilt_frame(i) == 0 - (3 * i + 1)
delta_slope(i) == IF i = 1 THEN 0 ELSE 7 - 2 * i
syllable_duration(j) == 3 * j - 1

PhraseOf(n) ==
    [f0 |-> [i \in 1..n |-> f0_frame(i)],
     f0_delta |-> IF n < 2 THEN <<0, 0, n>> ELSE [i \in 1..n |-> delta_slope(i)],
     spectral_tilt |-> [i \in 1..n |-> tilt_frame(i)],
     syllable_durations |-> [j \in 1..(IF n < 2 THEN n ELSE 2) |-> syllable_duration(j)]]

PhraseSet == {PhraseOf(n) : n \in 0..MaxVoiced}

\* os.path.splitext(file_name)[0]
splitext(file_name) ==
    IF Len(file_name) >= 4 /\ SubSeq(file_name, Len(file_name) - 3, Len(file_name)) = ".wav"
    THEN SubSeq(file_name, 1, Len(file_name) - 4)
    ELSE file_name

\* str.replace("xtts_", "")
RECURSIVE replace_xtts(_)
replace_xtts(t) ==
    IF Len(t) < 5 THEN t
    ELSE IF SubSeq(t, 1, 5) = "xtts_" THEN replace_xtts(SubSeq(t, 6, Len(t)))
    ELSE SubSeq(t, 1, 1) \o replace_xtts(SubSeq(t, 2, Len(t)))

\* base_file_name of a file of the pass
base_file_name(p, file_name) ==
    IF p = "references" THEN splitext(file_name) ELSE replace_xtts(splitext(file_name))

\* base_file_name.split("_")[0]
RECURSIVE category(_)
category(t) ==
    IF Len(t) = 0 \/ SubSeq(t, 1, 1) = "_" THEN ""
    ELSE SubSeq(t, 1, 1) \o category(SubSeq(t, 2, Len(t)))

files_of(p) == IF p = "references" THEN ref_files ELSE synth_files

\* the keys main() derives from the file names of the two passes:
\* mat_data_dict[p][category][base_file_name]
file_keys ==
    [p \in {"references", "syntheses"} |->
        [file_name \in {files_of(p)[f] : f \in 1..Len(files_of(p))} |->
            <<p, category(base_file_name(p, file_name)), base_file_name(p, file_name)>>]]

\* the key of mat_data_dict[p][category][base_file_name][phrase_key]
mat_key(p, file_name, phrase_key) == Append(file_keys[p][file_name], phrase_key)

\* The store is read lazily: the entries of a phrase key are drawn when the
\* first of them is read.
phrase_in_store(key) ==
    IF key \in DOMAIN mat_data_dict THEN {mat_data_dict[key]} ELSE PhraseSet

----------------------------------------------------------------------------
(* stat_into_csv.py: calculate_relevant_statistics *)

\* a slip in range_val: the operands exchanged
range_val_exchanged(min_5, max_95) == min_5 - max_95

\* range_val = max_95 - min_5
range_val(min_5, max_95) == max_95 - min_5

\* a slip in the suffix: phrase-level keys left without it
phrase_suffix_none(is_phrase_level) == ""

\* suffix = "_phrase" if is_phrase_level else ""
phrase_suffix(is_phrase_level) == IF is_phrase_level THEN "_phrase" ELSE ""

calculate_relevant_statistics(d, name, is_f0, is_delta, is_syllable, is_phrase_level) ==
    LET suffix == phrase_suffix(is_phrase_level)
        min_5 == np_percentile(d, 5)
        max_95 == np_percentile(d, 95)
        raw == (name \o "_mean" \o suffix) :> np_mean(d)
            @@ (name \o "_std" \o suffix) :> np_std(d)
            @@ (name \o "_range" \o suffix) :> range_val(min_5, max_95)
            @@ (name \o "_min5" \o suffix) :> min_5
            @@ (name \o "_max95" \o suffix) :> max_95
        log_data == [i \in 1..Len(d) |-> np_log(d[i])]
        logs == (name \o "_log_mean" \o suffix) :> np_mean(log_data)
            @@ (name \o "_log_std" \o suffix) :> np_std(log_data)
            @@ (name \o "_log_min5" \o suffix) :> np_percentile(log_data, 5)
            @@ (name \o "_log_max95" \o suffix) :> np_percentile(log_data, 95)
            @@ (name \o "_log_range" \o suffix) :>
                   (np_percentile(log_data, 95) - np_percentile(log_data, 5))
        log_abs_data == [i \in 1..Len(d) |-> np_log_abs_eps(d[i])]
        abslogs == (name \o "_abs_log_mean" \o suffix) :> np_mean(log_abs_data)
            @@ (name \o "_abs_log_std" \o suffix) :> np_std(log_abs_data)
            @@ (name \o "_abs_log_min_5" \o suffix) :> np_percentile(log_abs_data, 5)
            @@ (name \o "_abs_log_max_95" \o suffix) :> np_percentile(log_abs_data, 95)
            @@ (name \o "_abs_log_range" \o suffix) :>
                   (np_percentile(log_abs_data, 95) - np_percentile(log_abs_data, 5))
    IN  raw
        @@ (IF is_f0 \/ is_syllable THEN logs ELSE EmptyDict)
        @@ (IF is_delta THEN abslogs ELSE EmptyDict)

\* a slip in the flag: the spectral tilt taken for a series to take the log of
is_f0_of_tilt_too(name) == name \in {"f0", "spectral_tilt"}

\* the flags main() derives from stat_name
is_f0_of(name) == name = "f0"
is_delta_of(name) == name \in {"f0_delta", "f0_delta_thrline", "f0_delta_thrchange"}
is_syllable_of(name) == name = "syllable_durations"

\* the call main() makes for a series of stat_name
measure(d, name, is_phrase_level) ==
    calculate_relevant_statistics(d, name, is_f0_of(name), is_delta_of(name),
                                  is_syllable_of(name), is_phrase_level)

----------------------------------------------------------------------------
(* stat_into_csv.py: main, the per-entry steps *)

\* a slip in the emptiness test: a series of one value taken for empty
is_empty_entry_short(d) == Len(d) <= 1

\* isinstance(data, (list, np.ndarray)) and len(data) == 0
is_empty_entry(d) == Len(d) = 0

\* a slip in the degenerate-delta test: all three elements required to be zero
is_zero_delta_entry_all_zero(is_delta, d) ==
    is_delta /\ Len(d) = 3 /\ d[1] = 0 /\ d[2] = 0 /\ d[3] = 0

\* is_delta and data.size == 3 and data[0] == 0 and data[1] == 0
is_zero_delta_entry(is_delta, d) ==
    is_delta /\ Len(d) = 3 /\ d[1] = 0 /\ d[2] = 0

\* the two tests of the skip policy, "if ... elif ...": one of them holds
entry_is_skipped(name, d) ==
    is_empty_entry(d) \/ is_zero_delta_entry(is_delta_of(name), d)

\* a slip in the pooling: the pooled series replaced by the last phrase's data
concatenate_clip_overwrite(cld, name, d) == [cld EXCEPT ![name] = d]

\* clip_level_data[stat_name] = np.concatenate((clip_level_data[stat_name], data))
concatenate_clip(cld, name, d) == [cld EXCEPT ![name] = @ \o d]

\* the loop over measurements.keys() that appends to phrase_stats
collect_phrase_stats(ps, measurements) ==
    [k \in (DOMAIN ps) \cup (DOMAIN measurements) |->
        IF k \notin DOMAIN measurements THEN ps[k]
        ELSE IF k \notin DOMAIN ps THEN <<measurements[k]>>
        ELSE ps[k] \o <<measurements[k]>>]

\* clip_stats of the pooled series of the four features
clip_stats_of(cld) ==
    LET m(i) == measure(cld[StatNames[i]], StatNames[i], FALSE)
    IN  m(1) @@ m(2) @@ m(3) @@ m(4)

\* a slip in the phrase-level aggregation: the last phrase's value kept
phrase_last_of(ps) == [k \in DOMAIN ps |-> ps[k][Len(ps[k])]]

\* phrase_stats[stat_key] = np.mean(np.array(phrase_stats[stat_key]))
phrase_means_of(ps) == [k \in DOMAIN ps |-> np_mean(ps[k])]

\* create_dataframe: one record per key of the dictionary
create_dataframe(stat_dict) ==
    {Put(stat_dict[file_key], "file_name", file_key) : file_key \in DOMAIN stat_dict}

----------------------------------------------------------------------------
(* stat_into_csv.py: main as a state machine *)

\* the variables of the other parts stand still while main() runs
ExtIdle ==
    /\ ext_pc = "idle"
    /\ pitch = <<>>
    /\ magnitude = <<>>
    /\ f0_values = <<>>
    /\ f0_adjusted = <<>>
    /\ spectral_tilt_values = <<>>

\* main() before its loops: the store loaded, the file lists read, the counter 0
AggInit ==
    /\ pass = "references"
    /\ file_idx = 1
    /\ phrases = 0
    /\ phrase_idx = 1
    /\ stat_idx = 1
    /\ stat_name = ""
    /\ data = <<>>
    /\ clip_level_data = [n \in {StatNames[i] : i \in 1..Len(StatNames)} |-> <<>>]
    /\ phrase_stats = EmptyDict
    /\ empty_data_count = 0
    /\ all_ref_stats = EmptyDict
    /\ all_synth_stats = EmptyDict
    /\ mat_data_dict = EmptyDict
    /\ stdout = <<>>
    /\ csv = EmptyDict

\* phrase_split.process_files is not running
SplitIdle ==
    /\ split_pc = "idle"
    /\ files_done = 0
    /\ textgrid_file = <<>>
    /\ exported = {}

\* what an extrema variant has returned before it ran
NoExtrema == [valid_maxima |-> <<>>, valid_minima |-> <<>>, slopes |-> <<>>]

\* no extrema variant is running
PeakIdle ==
    /\ peak_pc = "idle"
    /\ log_f0 = <<>>
    /\ thr_line = NoExtrema
    /\ thr_change = NoExtrema

\* a call that has not been made
NoCall == [status |-> "none"]

\* no single call of calculate_relevant_statistics is under way
StatsIdle == stats_args = NoCall /\ stats_result = NoCall

\* no single call of get_syllable_duration_statistics is under way
SylIdle == syl_args = NoCall /\ syl_result = NoCall

\* no single call of get_f0_delta_statistics is under way
DeltaIdle == delta_args = NoCall /\ delta_result = NoCall

FunIdle == StatsIdle /\ SylIdle /\ DeltaIdle

\* collect_data.collect is not running
ColIdle ==
    /\ col_pc = "idle"
    /\ col_idx = 0
    /\ col_file = NoCall
    /\ results_dicts = EmptyDict
    /\ mat_file = NoCall

\* the three stages have not started
PipeIdle ==
    /\ pipe_pc = "idle"
    /\ pipe_idx = 0
    /\ phrase_dir = {}
    /\ pipe_store = NoCall
    /\ pipe_rows = {}
    /\ pipe_csv = NoCall

\* concatenate_clips is not running
ConcatIdle ==
    /\ cv_pc = "idle"
    /\ client_clips = <<>>
    /\ pause_audio = 0
    /\ speaker_file = <<>>
    /\ client_idx = 0
    /\ clip_idx = 0
    /\ segment_count = 0
    /\ current_segment = 0
    /\ current_duration = 0
    /\ cv_output = <<>>

\* calculate_measurements of the older pipeline is not running
OldIdle ==
    /\ old_pc = "idle"
    /\ old_directory = 0
    /\ old_files = 0
    /\ old_file = 0
    /\ old_delta = NoCall
    /\ old_results = <<>>
    /\ old_csv = NoCall

Init ==
    /\ pc = "file"
    /\ AggInit
    /\ ExtIdle
    /\ SplitIdle
    /\ PeakIdle
    /\ FunIdle
    /\ ColIdle
    /\ OldIdle
    /\ PipeIdle
    /\ ConcatIdle

\* a slip at the head of the file loop: the pooled series of the file before kept
kept_clip_level_data(cld) == cld

\* clip_level_data = {'f0': np.array([]), ...} at the head of the file loop
fresh_clip_level_data(cld) == [n \in DOMAIN cld |-> <<>>]

\* The head of the file loop: the phrase keys of the file are read and the
\* collections of the file start empty.
StartFile ==
    /\ pc = "file"
    /\ \E n \in 1..MaxPhrases : phrases' = n
    /\ clip_level_data' = fresh_clip_level_data(clip_level_data)
    /\ phrase_stats' = EmptyDict
    /\ phrase_idx' = 1
    /\ stat_idx' = 1
    /\ pc' = "entry"
    /\ UNCHANGED <<pass, file_idx, stat_name, data, empty_data_count, all_ref_stats,
                   all_synth_stats, mat_data_dict, stdout, csv>>
    /\ UNCHANGED <<extVars, splitVars, peakVars, funVars, colVars, oldVars, pipeVars, cvVars>>

\* One turn of the inner loop: the entry of (phrase_key, stat_name) is read,
\* then skipped and counted, or pooled and measured.
ProcessEntry ==
    /\ pc = "entry"
    /\ LET name == StatNames[stat_idx]
           file_name == files_of(pass)[file_idx]
           key == mat_key(pass, file_name, phrase_idx)
       IN  \E ph \in phrase_in_store(key) :
           LET d == ph[name] IN
             /\ stat_name' = name
             /\ data' = d
             /\ mat_data_dict' = Put(mat_data_dict, key, ph)
             /\ IF entry_is_skipped(name, d)
                THEN /\ empty_data_count' = empty_data_count + 1
                     /\ UNCHANGED <<clip_level_data, phrase_stats>>
                ELSE /\ clip_level_data' = concatenate_clip(clip_level_data, name, d)
                     /\ phrase_stats' = collect_phrase_stats(phrase_stats, measure(d, name, TRUE))
                     /\ UNCHANGED empty_data_count
    /\ IF stat_idx < Len(StatNames)
       THEN /\ stat_idx' = stat_idx + 1
            /\ UNCHANGED <<phrase_idx, pc>>
       ELSE /\ stat_idx' = 1
            /\ phrase_idx' = phrase_idx + 1
            /\ pc' = IF phrase_idx < phrases THEN "entry" ELSE "clip"
    /\ UNCHANGED <<pass, file_idx, phrases, all_ref_stats, all_synth_stats, stdout, csv>>
    /\ UNCHANGED <<extVars, splitVars, peakVars, funVars, colVars, oldVars, pipeVars, cvVars>>

\* the pooled series of some feature is empty: np.percentile raises
\* IndexError in the clip-level call, and main() ends with the exception
clip_level_raises(cld) == \E n \in DOMAIN cld : np_percentile_raises(cld[n])

\* After the phrases of the file: the clip-level statistics, the means of the
\* phrase-level statistics, the row of the file; then the next file, the
\* second loop, or the end of the loops.
FinishFile ==
    /\ pc = "clip"
    /\ ~clip_level_raises(clip_level_data)
    /\ LET file_name == files_of(pass)[file_idx]
           row == Merge(clip_stats_of(clip_level_data), phrase_means_of(phrase_stats))
       IN  /\ phrase_stats' = phrase_means_of(phrase_stats)
           /\ IF pass = "references"
              THEN /\ all_ref_stats' = Put(all_ref_stats, file_name, row)
                   /\ UNCHANGED all_synth_stats
              ELSE /\ all_synth_stats' = Put(all_synth_stats, file_name, row)
                   /\ UNCHANGED all_ref_stats
    /\ IF file_idx < Len(files_of(pass))
       THEN /\ file_idx' = file_idx + 1
            /\ pc' = "file"
            /\ UNCHANGED pass
       ELSE IF pass = "references"
       THEN /\ pass' = "syntheses"
            /\ file_idx' = 1
            /\ pc' = IF Len(synth_files) > 0 THEN "file" ELSE "report"
       ELSE /\ pc' = "report"
            /\ UNCHANGED <<pass, file_idx>>
    /\ UNCHANGED <<phrases, phrase_idx, stat_idx, stat_name, data, clip_level_data,
                   empty_data_count, mat_data_dict, stdout, csv>>
    /\ UNCHANGED <<extVars, splitVars, peakVars, funVars, colVars, oldVars, pipeVars, cvVars>>

\* The clip-level call on an empty pooled series: the exception leaves main().
FinishFileRaises ==
    /\ pc = "clip"
    /\ clip_level_raises(clip_level_data)
    /\ pc' = "raised"
    /\ UNCHANGED <<pass, file_idx, phrases, phrase_idx, stat_idx, stat_name, data,
                   clip_level_data, phrase_stats, empty_data_count, all_ref_stats,
                   all_synth_stats, mat_data_dict, stdout, csv>>
    /\ UNCHANGED <<extVars, splitVars, peakVars, funVars, colVars, oldVars, pipeVars, cvVars>>

\* a slip in the export: the table of the syntheses not saved
save_tables_references_only(ref_stats, synth_stats) ==
    "references.csv" :> create_dataframe(ref_stats)

\* ref_df.to_csv(references.csv), synth_df.to_csv(syntheses.csv)
save_tables(ref_stats, synth_stats) ==
    ("references.csv" :> create_dataframe(ref_stats))
        @@ ("syntheses.csv" :> create_dataframe(synth_stats))

\* After both loops: the count is printed and the two tables are saved.
Report ==
    /\ pc = "report"
    /\ stdout' = Append(stdout, empty_data_count)
    /\ csv' = save_tables(all_ref_stats, all_synth_stats)
    /\ pc' = "done"
    /\ UNCHANGED <<pass, file_idx, phrases, phrase_idx, stat_idx, stat_name, data,
                   clip_level_data, phrase_stats, empty_data_count, all_ref_stats,
                   all_synth_stats, mat_data_dict>>
    /\ UNCHANGED <<extVars, splitVars, peakVars, funVars, colVars, oldVars, pipeVars, cvVars>>

Next == StartFile \/ ProcessEntry \/ FinishFile \/ FinishFileRaises \/ Report

Spec == Init /\ [][Next]_vars

----------------------------------------------------------------------------
(* data_extraction_functions.py: the F0 and spectral-tilt extractors *)

\* the pitch track has 0..MaxPitchFrames frames
MaxPitchFrames == 3
\* the spectrogram has 0..MaxSpectrogramFrames frames
MaxSpectrogramFrames == 4
\* a spectrogram frame has NumBins frequency bins (n_fft / 2 + 1 in the program)
NumBins == 2

\* F0 of a frame in Hz: 0 is an unvoiced frame, 100 the threshold itself
F0Set == {0, 100, 150, 200}

RECURSIVE SeqsUpTo(_, _)
SeqsUpTo(S, n) ==
    IF n = 0 THEN {<<>>}
    ELSE LET shorter == SeqsUpTo(S, n - 1)
         IN  shorter \cup {Append(q, v) : q \in {r \in shorter : Len(r) = n - 1}, v \in S}

\* 2 to the power e
RECURSIVE Pow2(_)
Pow2(e) == IF e = 0 THEN 1 ELSE 2 * Pow2(e - 1)

\* Two spectrograms of len frames: in the first the magnitude of frame t
\* grows with the bin, faster for later frames; in the second it falls
\* from t to zero.
MagnitudeSet(len) ==
    {[t \in 1..len |-> [b \in 1..NumBins |-> Pow2(t * (b - 1))]],
     [t \in 1..len |-> [b \in 1..NumBins |-> IF b = 1 THEN t ELSE 0]]}

\* boolean-mask indexing a[mask] of numpy: the elements where keep holds, in order
RECURSIVE MaskSelect(_, _)
MaskSelect(a, keep) ==
    IF a = <<>> THEN <<>>
    ELSE (IF Head(keep) THEN <<Head(a)>> ELSE <<>>) \o MaskSelect(Tail(a), Tail(keep))

\* a slip in the voicing test: the threshold itself taken for voiced
get_f0_statistics_ge(f0) == MaskSelect(f0, [i \in 1..Len(f0) |-> f0[i] >= 100])

\* f0_values[f0_values > 100]
get_f0_statistics(f0) == MaskSelect(f0, [i \in 1..Len(f0) |-> f0[i] > 100])

\* calculate_spectral_tilt: the slope of 20 * log(frame + 1e-10) over the bin index
calculate_spectral_tilt(frame) ==
    LET log_magnitude == [b \in 1..Len(frame) |-> 20 * np_log_eps(frame[b])]
        frequencies == [b \in 1..Len(frame) |-> b - 1]
    IN  polyfit_slope(frequencies, log_magnitude)

\* a slip in the padding: the zeros put before the F0 series
align_f0_pad_front(f0, spectrogram_length) ==
    IF Len(f0) < spectrogram_length
    THEN [i \in 1..(spectrogram_length - Len(f0)) |-> 0] \o f0
    ELSE IF Len(f0) > spectrogram_length THEN SubSeq(f0, 1, spectrogram_length)
    ELSE f0

\* the padding / truncation of f0_values to the spectrogram length
align_f0(f0, spectrogram_length) ==
    IF Len(f0) < spectrogram_length
    THEN f0 \o [i \in 1..(spectrogram_length - Len(f0)) |-> 0]
    ELSE IF Len(f0) > spectrogram_length THEN SubSeq(f0, 1, spectrogram_length)
    ELSE f0

\* a slip in the mask: the threshold itself taken for voiced
voiced_mask_ge(adjusted) == [i \in 1..Len(adjusted) |-> adjusted[i] >= 100]

\* f0_adjusted > 100
voiced_mask(adjusted) == [i \in 1..Len(adjusted) |-> adjusted[i] > 100]

\* magnitude[:, f0_adjusted > 100], then one tilt per remaining frame
get_spectral_tilt_statistics(mag, f0) ==
    LET filtered_magnitude == MaskSelect(mag, voiced_mask(align_f0(f0, Len(mag))))
    IN  [t \in 1..Len(filtered_magnitude) |-> calculate_spectral_tilt(filtered_magnitude[t])]

\* the variables of the other parts stand still while the extractors run
AggIdle ==
    /\ pc = "idle"
    /\ AggInit

\* A phrase clip is loaded: its pitch track and its spectrogram.
ExtractInit ==
    /\ AggIdle
    /\ SplitIdle
    /\ PeakIdle
    /\ FunIdle
    /\ ColIdle
    /\ OldIdle
    /\ PipeIdle
    /\ ConcatIdle
    /\ ext_pc = "f0"
    /\ pitch \in SeqsUpTo(F0Set, MaxPitchFrames)
    /\ \E len \in 0..MaxSpectrogramFrames : magnitude \in MagnitudeSet(len)
    /\ f0_values = <<>>
    /\ f0_adjusted = <<>>
    /\ spectral_tilt_values = <<>>

\* f0_values = get_f0_statistics(pitch)
GetF0Statistics ==
    /\ ext_pc = "f0"
    /\ f0_values' = get_f0_statistics(pitch)
    /\ ext_pc' = "tilt"
    /\ UNCHANGED <<pitch, magnitude, f0_adjusted, spectral_tilt_values>>
    /\ UNCHANGED <<aggVars, splitVars, peakVars, funVars, colVars, oldVars, pipeVars, cvVars>>

\* spectral_tilt_values = get_spectral_tilt_statistics(y, pitch, sr)
GetSpectralTiltStatistics ==
    /\ ext_pc = "tilt"
    /\ f0_adjusted' = align_f0(pitch, Len(magnitude))
    /\ spectral_tilt_values' = get_spectral_tilt_statistics(magnitude, pitch)
    /\ ext_pc' = "done"
    /\ UNCHANGED <<pitch, magnitude, f0_values>>
    /\ UNCHANGED <<aggVars, splitVars, peakVars, funVars, colVars, oldVars, pipeVars, cvVars>>

ExtractNext == GetF0Statistics \/ GetSpectralTiltStatistics

SpecExtract == ExtractInit /\ [][ExtractNext]_vars

----------------------------------------------------------------------------
(* phrase_split.py: cutting the clips into phrases *)

\* process_files goes through at most MaxTextGrids TextGrid files
MaxTextGrids == 2
\* a TextGrid file has 1..MaxTiers tiers
MaxTiers == 2
\* the "Phrases" tier has 0..MaxIntervals intervals
MaxIntervals == 2
\* Times are counted in ticks, TicksPerMs ticks to the millisecond, so that
\* an interval boundary need not fall on a whole millisecond.
TicksPerMs == 2

\* the labels of an interval: none, a blank, a phrase
TextSet == {"", " ", "a"}

\* the intervals of a tier tile it: interval j ends 3 ticks after it begins
Boundary(j) == 3 * j

IntervalsOf(texts) ==
    [j \in 1..Len(texts) |-> [xmin |-> Boundary(j - 1), xmax |-> Boundary(j), text |-> texts[j]]]

\* the "Phrases" interval tiers
PhrasesTierSet ==
    {[class |-> "IntervalTier", name |-> "Phrases", intervals |-> IntervalsOf(texts)] :
        texts \in SeqsUpTo(TextSet, MaxIntervals)}

\* the other tiers: a "Words" interval tier with a labelled interval, and a
\* point tier that happens to be called "Phrases"
OtherTierSet ==
    {[class |-> "IntervalTier", name |-> "Words", intervals |-> IntervalsOf(<<"w">>)],
     [class |-> "TextTier", name |-> "Phrases", intervals |-> <<>>]}

IsPhrasesTier(tier) == tier.class = "IntervalTier" /\ tier.name = "Phrases"

\* the tier lists of a TextGrid file: tier names are not repeated among
\* the interval tiers
TierListSet ==
    {tiers \in SeqsUpTo(PhrasesTierSet \cup OtherTierSet, MaxTiers) :
        /\ Len(tiers) >= 1
        /\ Cardinality({i \in 1..Len(tiers) : IsPhrasesTier(tiers[i])}) <= 1}

\* the TextGrid file found next by glob: its base name, its tiers, whether
\* the matching .wav exists, and which corpus its path names
TextGridFileSet(n) ==
    [base_filename : {<<"clip", n>>},
     tiers : TierListSet,
     audio_exists : BOOLEAN,
     corpus : {"references", "syntheses", "other"}]

\* str.lstrip / str.rstrip / str.strip for blanks
RECURSIVE lstrip(_)
lstrip(text) ==
    IF Len(text) > 0 /\ SubSeq(text, 1, 1) = " "
    THEN lstrip(SubSeq(text, 2, Len(text)))
    ELSE text

RECURSIVE rstrip(_)
rstrip(text) ==
    IF Len(text) > 0 /\ SubSeq(text, Len(text), Len(text)) = " "
    THEN rstrip(SubSeq(text, 1, Len(text) - 1))
    ELSE text

strip(text) == rstrip(lstrip(text))

\* tier_pattern.search(data): the first tier of class "IntervalTier" and name
\* "Phrases" that is followed by another "item [n]:" header; 0 if there is none.
\* The pattern ends in 'item \[\d+\]:', so it needs a tier after the one it finds.
tier_match(tiers) ==
    LET found == {i \in 1..Len(tiers) : IsPhrasesTier(tiers[i]) /\ i < Len(tiers)}
    IN  IF found = {} THEN 0 ELSE CHOOSE i \in found : \A j \in found : i <= j

\* the intervals of a list whose text is not blank, in order
RECURSIVE with_text(_)
with_text(intervals) ==
    IF intervals = <<>> THEN <<>>
    ELSE (IF strip(Head(intervals).text) # "" THEN <<Head(intervals)>> ELSE <<>>)
         \o with_text(Tail(intervals))

\* parse_textgrid
parse_textgrid(tiers) ==
    IF tier_match(tiers) # 0
    THEN with_text(tiers[tier_match(tiers)].intervals)
    ELSE <<>>

\* int(x * 1000) for a time x given in ticks
to_ms(ticks) == ticks \div TicksPerMs

\* extract_audio_segments: clip idx is audio[start_time:end_time]
extract_audio_segments(file, phrase_list) ==
    {[base_filename |-> file.base_filename,
      output_dir |-> <<file.corpus, "IDS">>,
      idx |-> idx,
      start_time |-> to_ms(phrase_list[idx].xmin),
      end_time |-> to_ms(phrase_list[idx].xmax)] : idx \in 1..Len(phrase_list)}

\* a slip in the loop body: the audio file opened without a look whether it exists
clips_of_unchecked_audio(file) ==
    LET phrase_list == parse_textgrid(file.tiers)
    IN  IF phrase_list = <<>> THEN {}
        ELSE IF file.corpus \notin {"references", "syntheses"} THEN {}
        ELSE extract_audio_segments(file, phrase_list)

\* the clips one iteration of process_files writes
clips_of(file) ==
    LET phrase_list == parse_textgrid(file.tiers)
    IN  IF phrase_list = <<>> THEN {}
        ELSE IF ~file.audio_exists THEN {}
        ELSE IF file.corpus \notin {"references", "syntheses"} THEN {}
        ELSE extract_audio_segments(file, phrase_list)

SplitInit ==
    /\ AggIdle
    /\ ExtIdle
    /\ PeakIdle
    /\ FunIdle
    /\ ColIdle
    /\ OldIdle
    /\ PipeIdle
    /\ ConcatIdle
    /\ split_pc = "loop"
    /\ files_done = 0
    /\ textgrid_file = <<>>
    /\ exported = {}

\* one iteration of the loop of process_files
ProcessTextGridFile ==
    /\ split_pc = "loop"
    /\ files_done < MaxTextGrids
    /\ \E file \in TextGridFileSet(files_done + 1) :
           /\ textgrid_file' = file
           /\ exported' = exported \cup clips_of(file)
    /\ files_done' = files_done + 1
    /\ UNCHANGED split_pc
    /\ UNCHANGED <<aggVars, extVars, peakVars, funVars, colVars, oldVars, pipeVars, cvVars>>

SplitNext == ProcessTextGridFile

SpecSplit == SplitInit /\ [][SplitNext]_vars

----------------------------------------------------------------------------
(* data_extraction_functions.py: the extrema-to-extrema delta variants *)

\* the contour has 0..MaxContour voiced frames
MaxContour == 8

\* log-F0 is counted in units of 0.0001: three levels around log(100),
\* 0.02 apart, so that a change between two levels is 0, 0.02 or 0.04
LogF0Set == {46000, 46200, 46400}

\* change_threshold = 0.02 in the same unit
ChangeThreshold == 200

\* -f0_values
negated(x) == [i \in 1..Len(x) |-> 0 - x[i]]

\* i in find_peaks(x): frame m is the middle of a run of equal values that
\* is higher than the frame before it and the frame after it
is_local_maximum(x, m) ==
    \E l \in 2..m, r \in m..(Len(x) - 1) :
        /\ x[l - 1] < x[l]
        /\ x[r + 1] < x[r]
        /\ \A k \in l..r : x[k] = x[l]
        /\ m = (l + r) \div 2

\* find_peaks(x)[0]: the indices of the local maxima, ascending
find_peaks(x) ==
    MaskSelect([i \in 1..Len(x) |-> i], [i \in 1..Len(x) |-> is_local_maximum(x, i)])

\* np.mean(f0_values) kept exact, as <<sum, count>>
mean_f0(f) == <<Sum(f), Len(f)>>

\* value > baseline and value < baseline
above(value, baseline) == value * baseline[2] > baseline[1]

below(value, baseline) == value * baseline[2] < baseline[1]

\* max(segment_extrema, key=value): the first element with the highest value
max_extreme(segment) ==
    segment[CHOOSE k \in 1..Len(segment) :
                /\ \A j \in 1..Len(segment) : segment[j][2] <= segment[k][2]
                /\ \A j \in 1..(k - 1) : segment[j][2] < segment[k][2]]

\* min(segment_extrema, key=value): the first element with the lowest value
min_extreme(segment) ==
    segment[CHOOSE k \in 1..Len(segment) :
                /\ \A j \in 1..Len(segment) : segment[j][2] >= segment[k][2]
                /\ \A j \in 1..(k - 1) : segment[j][2] > segment[k][2]]

\* a slip in the processing of a segment: all its members become valid
process_segment_all(st) ==
    LET members == [k \in 1..Len(st.segment_extrema) |-> st.segment_extrema[k][1]]
    IN  IF st.segment_extrema = <<>> THEN st
        ELSE IF st.segment_extrema[1][3] = "max"
        THEN [st EXCEPT !.valid_maxima = @ \o members]
        ELSE [st EXCEPT !.valid_minima = @ \o members]

\* "Process the previous segment": its most extreme member becomes valid
process_segment(st) ==
    IF st.segment_extrema = <<>> THEN st
    ELSE IF st.segment_extrema[1][3] = "max"
    THEN [st EXCEPT !.valid_maxima = Append(@, max_extreme(st.segment_extrema)[1])]
    ELSE [st EXCEPT !.valid_minima = Append(@, min_extreme(st.segment_extrema)[1])]

\* the body of the loop of filter_extrema for frame i
filter_step(f, baseline, i, st) ==
    IF is_local_maximum(f, i)
    THEN IF above(f[i], baseline)
         THEN IF st.last_extrema_type = "max"
              THEN [st EXCEPT !.segment_extrema = Append(@, <<i, f[i], "max">>)]
              ELSE [(IF st.last_extrema_type = "min" THEN process_segment(st) ELSE st)
                       EXCEPT !.segment_extrema = <<<<i, f[i], "max">>>>,
                              !.last_extrema_type = "max"]
         ELSE st
    ELSE IF is_local_maximum(negated(f), i)
    THEN IF below(f[i], baseline)
         THEN IF st.last_extrema_type = "min"
              THEN [st EXCEPT !.segment_extrema = Append(@, <<i, f[i], "min">>)]
              ELSE [(IF st.last_extrema_type = "max" THEN process_segment(st) ELSE st)
                       EXCEPT !.segment_extrema = <<<<i, f[i], "min">>>>,
                              !.last_extrema_type = "min"]
         ELSE st
    ELSE st

\* the loop of filter_extrema over the frames 1..i
RECURSIVE filter_loop(_, _, _)
filter_loop(f, baseline, i) ==
    IF i = 0
    THEN [valid_maxima |-> <<>>, valid_minima |-> <<>>,
          segment_extrema |-> <<>>, last_extrema_type |-> "None"]
    ELSE filter_step(f, baseline, i, filter_loop(f, baseline, i - 1))

\* filter_extrema: <<valid_maxima, valid_minima>>
filter_extrema(f, baseline) ==
    LET st == process_segment(filter_loop(f, baseline, Len(f)))
    IN  <<st.valid_maxima, st.valid_minima>>

\* the extrema of a list that differ by change_threshold or more from the
\* extremum before them; the first extremum has none before it
change_filter(f, extrema) ==
    MaskSelect(extrema,
               [i \in 1..Len(extrema) |->
                   i > 1 /\ Abs(f[extrema[i]] - f[extrema[i - 1]]) >= ChangeThreshold])

\* x in list
in_list(x, list) == \E k \in 1..Len(list) : list[k] = x

\* np.polyfit([start_idx, end_idx], [f[start_idx], f[end_idx]], 1)[0]
line_slope(f, start_idx, end_idx) ==
    polyfit_slope(<<start_idx, end_idx>>, <<f[start_idx], f[end_idx]>>)

\* a slip in the connection: every pair of neighbouring extrema gets a line
RECURSIVE connect_pairs_any(_, _, _, _, _)
connect_pairs_any(f, valid_maxima, valid_minima, extrema_indices, i) ==
    IF i >= Len(extrema_indices) THEN <<>>
    ELSE <<line_slope(f, extrema_indices[i], extrema_indices[i + 1])>>
         \o connect_pairs_any(f, valid_maxima, valid_minima, extrema_indices, i + 1)

\* the loop over the neighbouring pairs of extrema_indices, from pair i on
RECURSIVE connect_pairs(_, _, _, _, _)
connect_pairs(f, valid_maxima, valid_minima, extrema_indices, i) ==
    IF i >= Len(extrema_indices) THEN <<>>
    ELSE LET start_idx == extrema_indices[i]
             end_idx == extrema_indices[i + 1]
         IN  (IF \/ in_list(start_idx, valid_maxima) /\ in_list(end_idx, valid_minima)
                 \/ in_list(start_idx, valid_minima) /\ in_list(end_idx, valid_maxima)
              THEN <<line_slope(f, start_idx, end_idx)>>
              ELSE <<>>)
             \o connect_pairs(f, valid_maxima, valid_minima, extrema_indices, i + 1)

\* extrema_indices = sorted(valid_maxima + valid_minima), then the slopes
connect_extrema(f, valid_maxima, valid_minima) ==
    connect_pairs(f, valid_maxima, valid_minima, Sort(valid_maxima \o valid_minima), 1)

\* get_F0_delta_peakdet_thr_line on the contour f
get_F0_delta_peakdet_thr_line(f) ==
    LET valid == filter_extrema(f, mean_f0(f))
    IN  [valid_maxima |-> valid[1], valid_minima |-> valid[2],
         slopes |-> connect_extrema(f, valid[1], valid[2])]

\* get_F0_delta_peakdet_thr_change on the contour f
get_F0_delta_peakdet_thr_change(f) ==
    LET valid_maxima == change_filter(f, find_peaks(f))
        valid_minima == change_filter(f, find_peaks(negated(f)))
    IN  [valid_maxima |-> valid_maxima, valid_minima |-> valid_minima,
         slopes |-> connect_extrema(f, valid_maxima, valid_minima)]

\* A clip is loaded and tracked: its voiced log-F0 contour.
PeakInit ==
    /\ AggIdle
    /\ ExtIdle
    /\ SplitIdle
    /\ FunIdle
    /\ ColIdle
    /\ OldIdle
    /\ PipeIdle
    /\ ConcatIdle
    /\ peak_pc = "thr_line"
    /\ log_f0 \in SeqsUpTo(LogF0Set, MaxContour)
    /\ thr_line = NoExtrema
    /\ thr_change = NoExtrema

RunThrLine ==
    /\ peak_pc = "thr_line"
    /\ thr_line' = get_F0_delta_peakdet_thr_line(log_f0)
    /\ peak_pc' = "thr_change"
    /\ UNCHANGED <<log_f0, thr_change>>
    /\ UNCHANGED <<aggVars, extVars, splitVars, funVars, colVars, oldVars, pipeVars, cvVars>>

RunThrChange ==
    /\ peak_pc = "thr_change"
    /\ thr_change' = get_F0_delta_peakdet_thr_change(log_f0)
    /\ peak_pc' = "done"
    /\ UNCHANGED <<log_f0, thr_line>>
    /\ UNCHANGED <<aggVars, extVars, splitVars, funVars, colVars, oldVars, pipeVars, cvVars>>

PeakNext == RunThrLine \/ RunThrChange

SpecPeak == PeakInit /\ [][PeakNext]_vars

----------------------------------------------------------------------------
(* stat_into_csv.py: calculate_relevant_statistics called on its own *)

\* the series of a call has 0..MaxSeries values
MaxSeries == 2

\* the values of a series: a negative one, zero, two positive ones
ValueSet == {0 - 3, 0, 4, 9}

\* The arguments of a call: any series, any of the four stat names, any
\* flags. A series with a value that is not positive is left to the calls
\* without is_f0 and is_syllable: its logarithm is not a finite number, and
\* the statistics are computed in integers.
StatsArgsSet ==
    {a \in [data : SeqsUpTo(ValueSet, MaxSeries),
            stat_name : {StatNames[i] : i \in 1..Len(StatNames)},
            is_f0 : BOOLEAN, is_delta : BOOLEAN, is_syllable : BOOLEAN,
            is_phrase_level : BOOLEAN] :
        (a.is_f0 \/ a.is_syllable) => \A i \in 1..Len(a.data) : a.data[i] > 0}

StatsInit ==
    /\ AggIdle
    /\ ExtIdle
    /\ SplitIdle
    /\ PeakIdle
    /\ SylIdle
    /\ DeltaIdle
    /\ ColIdle
    /\ OldIdle
    /\ PipeIdle
    /\ ConcatIdle
    /\ stats_args \in StatsArgsSet
    /\ stats_result = NoCall

\* The call: np.percentile raises IndexError on the empty series, anything
\* else gets its record.
CalculateRelevantStatistics ==
    /\ stats_result = NoCall
    /\ stats_result' =
           IF np_percentile_raises(stats_args.data)
           THEN [status |-> "raised", error |-> "IndexError"]
           ELSE [status |-> "returned",
                 stats |-> calculate_relevant_statistics(
                               stats_args.data, stats_args.stat_name, stats_args.is_f0,
                               stats_args.is_delta, stats_args.is_syllable,
                               stats_args.is_phrase_level)]
    /\ UNCHANGED <<stats_args, syl_args, syl_result, delta_args, delta_result>>
    /\ UNCHANGED <<aggVars, extVars, splitVars, peakVars, colVars, oldVars, pipeVars, cvVars>>

StatsNext == CalculateRelevantStatistics

SpecStats == StatsInit /\ [][StatsNext]_vars

----------------------------------------------------------------------------
(* get_syllable_duration_statistics of data_extraction_functions.py: one call
   on a phrase clip. Times are in ticks of one pitch frame step; frame k of
   the pitch track has the time stamp k. *)

MaxSyllables == 2
MaxFrames == 3

\* two unequal durations, neither of them zero
DurationSet == {3, 7}

\* F0 of a pitch frame for this extractor
SylF0Set == {0, 100, 150}

\* syllable bounds of n syllables: n + 1 times, never decreasing
BoundsSet(n) ==
    {b \in [1..(n + 1) -> 0..(MaxFrames + 1)] : \A j \in 1..n : b[j] <= b[j + 1]}

\* pitch.ts() of a track of n frames
pitch_ts(n) == [k \in 1..n |-> k]

\* the syllable data as their producer computes them: the duration of a
\* syllable is the length of the interval between its two bounds
syllable_durations_of(bounds_t) ==
    [j \in 1..(Len(bounds_t) - 1) |-> bounds_t[j + 1] - bounds_t[j]]

\* The clip either has no entry in all_syldurs["SYLDURS"], or has the
\* durations of its syllables and one bound more than syllables; the
\* durations are the lengths of the intervals, or any values at all.
SylArgsSet ==
    {[in_syldurs |-> TRUE, syllable_durations |-> syllable_durations_of(b), bounds_t |-> b,
      time_stamps |-> pitch_ts(Len(f)), f0_values |-> f] :
         b \in UNION {BoundsSet(n) : n \in 0..MaxSyllables}, f \in SeqsUpTo(SylF0Set, MaxFrames)}
    \cup
    {[in_syldurs |-> FALSE, syllable_durations |-> <<>>, bounds_t |-> <<0>>,
      time_stamps |-> pitch_ts(Len(f)), f0_values |-> f] :
         f \in {<<>>, <<150>>}}
    \cup
    {a \in [in_syldurs : {TRUE},
            syllable_durations : SeqsUpTo(DurationSet, MaxSyllables),
            bounds_t : UNION {BoundsSet(n) : n \in 0..MaxSyllables},
            time_stamps : {pitch_ts(n) : n \in 0..MaxFrames},
            f0_values : SeqsUpTo(SylF0Set, MaxFrames)] :
        /\ Len(a.bounds_t) = Len(a.syllable_durations) + 1
        /\ Len(a.time_stamps) = Len(a.f0_values)}

\* a slip in the interval test: the end bound taken into the syllable
get_syllable_duration_statistics_closed(syllable_durations, bounds_t, time_stamps, f0) ==
    MaskSelect(syllable_durations,
               [j \in 1..Len(syllable_durations) |->
                   \E k \in 1..Len(time_stamps) :
                       /\ time_stamps[k] >= bounds_t[j]
                       /\ time_stamps[k] <= bounds_t[j + 1]
                       /\ f0[k] > 100])

\* the loop over the syllables: a duration is appended when some frame with
\* syllable_start <= time stamp < syllable_end has F0 above 100
get_syllable_duration_statistics(syllable_durations, bounds_t, time_stamps, f0) ==
    MaskSelect(syllable_durations,
               [j \in 1..Len(syllable_durations) |->
                   \E k \in 1..Len(time_stamps) :
                       /\ time_stamps[k] >= bounds_t[j]
                       /\ time_stamps[k] < bounds_t[j + 1]
                       /\ f0[k] > 100])

SylInit ==
    /\ AggIdle
    /\ ExtIdle
    /\ SplitIdle
    /\ PeakIdle
    /\ StatsIdle
    /\ DeltaIdle
    /\ ColIdle
    /\ OldIdle
    /\ PipeIdle
    /\ ConcatIdle
    /\ syl_args \in SylArgsSet
    /\ syl_result = NoCall

\* The call: the lookup of a clip without entry raises KeyError, anything
\* else returns the valid durations.
GetSyllableDurationStatistics ==
    /\ syl_result = NoCall
    /\ syl_result' =
           IF ~syl_args.in_syldurs
           THEN [status |-> "raised", error |-> "KeyError"]
           ELSE [status |-> "returned",
                 valid_syllable_durations |->
                     get_syllable_duration_statistics(
                         syl_args.syllable_durations, syl_args.bounds_t,
                         syl_args.time_stamps, syl_args.f0_values)]
    /\ UNCHANGED <<stats_args, stats_result, syl_args, delta_args, delta_result>>
    /\ UNCHANGED <<aggVars, extVars, splitVars, peakVars, colVars, oldVars, pipeVars, cvVars>>

SylNext == GetSyllableDurationStatistics

SpecSyllable == SylInit /\ [][SylNext]_vars

----------------------------------------------------------------------------
(* get_f0_delta_statistics of data_extraction_functions.py: one call on the
   pitch track of a phrase clip, with the window and step of its signature,
   as collect_data.py calls it. *)

MaxDeltaFrames == 7

\* def get_f0_delta_statistics(pitch, window=5, step=1)
DefaultWindow == 5
DefaultStep == 1

\* F0 of a pitch frame for this extractor
DeltaF0Set == {0, 100, 150, 300}

DeltaArgsSet ==
    [pitch : SeqsUpTo(DeltaF0Set, MaxDeltaFrames),
     window : {DefaultWindow},
     step : {DefaultStep}]

\* return 0, 0, []
DegenerateDelta == [shape |-> "tuple", mean_f0_delta |-> 0, sd_f0_delta |-> 0, delta_values |-> <<>>]

\* np.arange(n)
np_arange(n) == [k \in 1..n |-> k - 1]

\* log_f0_values[max(i - window, 0) : min(i + window, len(log_f0_values))]
\* for the position i counted from 0
window_segment(log_f0_values, i, window) ==
    LET start_index == IF i - window > 0 THEN i - window ELSE 0
        end_index == IF i + window < Len(log_f0_values) THEN i + window ELSE Len(log_f0_values)
    IN  SubSeq(log_f0_values, start_index + 1, end_index)

\* a slip in the test of the segment: two points taken for too few
too_short_for_fit_3(segment) == Len(segment) < 3

\* if len(segment) < 2: continue
too_short_for_fit(segment) == Len(segment) < 2

\* the loop over range(i, len(log_f0_values), step): the slopes appended
RECURSIVE delta_values_from(_, _, _, _)
delta_values_from(log_f0_values, i, window, step) ==
    IF i >= Len(log_f0_values) THEN <<>>
    ELSE LET segment == window_segment(log_f0_values, i, window)
         IN  (IF too_short_for_fit(segment) THEN <<>>
              ELSE <<polyfit_slope(np_arange(Len(segment)), segment)>>)
             \o delta_values_from(log_f0_values, i + step, window, step)

get_f0_delta_statistics(pitch_track, window, step) ==
    LET f0 == MaskSelect(pitch_track, [i \in 1..Len(pitch_track) |-> pitch_track[i] > 100])
    IN  IF Len(f0) < 2 THEN DegenerateDelta
        ELSE LET log_f0_values == [i \in 1..Len(f0) |-> np_log(f0[i])]
                 slopes == delta_values_from(log_f0_values, 0, window, step)
             IN  IF Len(slopes) = 0 THEN DegenerateDelta
                 ELSE [shape |-> "array", mean_f0_delta |-> 0, sd_f0_delta |-> 0,
                       delta_values |-> slopes]

\* a slip in the storing: the tuple flattened, its empty list leaving nothing
stored_entry_flattened(value) ==
    IF value.shape = "tuple"
    THEN <<value.mean_f0_delta, value.sd_f0_delta>> \o value.delta_values
    ELSE value.delta_values

\* What loadmat(MAT_INPUT, simplify_cells=True) gives back for the f0_delta
\* value that process_files stored and savemat wrote: the tuple (0, 0, [])
\* comes back as an array of three elements, the two zeros and an empty
\* array; an array of slopes comes back as it was.
stored_entry(value) ==
    IF value.shape = "tuple"
    THEN <<value.mean_f0_delta, value.sd_f0_delta, value.delta_values>>
    ELSE value.delta_values

DeltaInit ==
    /\ AggIdle
    /\ ExtIdle
    /\ SplitIdle
    /\ PeakIdle
    /\ StatsIdle
    /\ SylIdle
    /\ ColIdle
    /\ OldIdle
    /\ PipeIdle
    /\ ConcatIdle
    /\ delta_args \in DeltaArgsSet
    /\ delta_result = NoCall

GetF0DeltaStatistics ==
    /\ delta_result = NoCall
    /\ delta_result' =
           [status |-> "returned",
            value |-> get_f0_delta_statistics(delta_args.pitch, delta_args.window,
                                              delta_args.step)]
    /\ UNCHANGED <<stats_args, stats_result, syl_args, syl_result, delta_args>>
    /\ UNCHANGED <<aggVars, extVars, splitVars, peakVars, colVars, oldVars, pipeVars, cvVars>>

DeltaNext == GetF0DeltaStatistics

SpecDelta == DeltaInit /\ [][DeltaNext]_vars

----------------------------------------------------------------------------
(* collect_data.py: collect() preallocates the result dictionaries, walks
   the phrase clips of the references and then of the syntheses, and saves
   both dictionaries to one .mat file at the end. *)

MaxClips == 2

SUB_DIRS == <<"original", "denoised", "enhanced">>

Categories == <<"Reference", "Synthesis">>

\* os.listdir(directory), the .wav files: the clips lie in the first
\* sub-directory, the other two are empty
listdir(category_name, sub_dir) ==
    IF sub_dir # "original" THEN <<>>
    ELSE [k \in 1..MaxClips |->
             (IF category_name = "Synthesis" THEN "xtts_" ELSE "")
                 \o "IDS_a_phrase_" \o ToString(k) \o ".wav"]

\* str.replace(sub, ""): every occurrence of sub removed
RECURSIVE str_remove(_, _)
str_remove(t, sub) ==
    IF Len(t) < Len(sub) THEN t
    ELSE IF SubSeq(t, 1, Len(sub)) = sub THEN str_remove(SubSeq(t, Len(sub) + 1, Len(t)), sub)
    ELSE SubSeq(t, 1, 1) \o str_remove(SubSeq(t, 2, Len(t)), sub)

\* str.split('_')
RECURSIVE str_split(_)
str_split(t) ==
    IF Len(t) = 0 THEN <<"">>
    ELSE LET rest == str_split(SubSeq(t, 2, Len(t)))
         IN  IF SubSeq(t, 1, 1) = "_" THEN <<"">> \o rest
             ELSE <<SubSeq(t, 1, 1) \o Head(rest)>> \o Tail(rest)

\* '_'.join(parts)
RECURSIVE str_join(_)
str_join(parts) ==
    IF parts = <<>> THEN ""
    ELSE IF Len(parts) = 1 THEN parts[1]
    ELSE parts[1] \o "_" \o str_join(Tail(parts))

\* extract_base_and_phrase of a clip name with at least two '_'-parts
extract_base_and_phrase(filename) ==
    LET bare == str_remove(filename, ".wav")
        name == IF Len(bare) >= 5 /\ SubSeq(bare, 1, 5) = "xtts_"
                THEN SubSeq(bare, 6, Len(bare)) ELSE bare
        parts == str_split(name)
    IN  [base_file |-> str_join(SubSeq(parts, 1, Len(parts) - 2)),
         phrase |-> parts[Len(parts) - 1] \o "_" \o parts[Len(parts)]]

\* the key of results_dicts[category][sub_dir][base_file][phrase]
results_key(category_name, sub_dir, filename) ==
    <<category_name, sub_dir, extract_base_and_phrase(filename).base_file,
      extract_base_and_phrase(filename).phrase>>

\* the clips in the order the two process_files calls walk them
RECURSIVE ClipsFrom(_, _)
ClipsFrom(c, d) ==
    IF c > Len(Categories) THEN <<>>
    ELSE IF d > Len(SUB_DIRS) THEN ClipsFrom(c + 1, 1)
    ELSE [k \in 1..Len(listdir(Categories[c], SUB_DIRS[d])) |->
             [category |-> Categories[c], sub_dir |-> SUB_DIRS[d],
              file |-> listdir(Categories[c], SUB_DIRS[d])[k]]]
         \o ClipsFrom(c, d + 1)

AllClips == ClipsFrom(1, 1)

\* the entry preallocate_results makes for a clip
Placeholder == [f0 |-> <<>>, f0_delta |-> <<>>, spectral_tilt |-> <<>>, syllable_duration |-> <<>>]

\* preallocate_results for both categories
preallocate_results ==
    [key \in {results_key(AllClips[k].category, AllClips[k].sub_dir, AllClips[k].file) :
                 k \in 1..Len(AllClips)} |-> Placeholder]

\* a slip in the lookup: a clip without entry treated as one without syllables
syldurs_lookup_default(in_syldurs) == FALSE

\* all_syldurs["SYLDURS"][base_name] of a clip that has no entry raises KeyError
syldurs_lookup_raises(in_syldurs) == ~in_syldurs

ColInit ==
    /\ AggIdle
    /\ ExtIdle
    /\ SplitIdle
    /\ PeakIdle
    /\ FunIdle
    /\ OldIdle
    /\ PipeIdle
    /\ ConcatIdle
    /\ col_pc = "preallocate"
    /\ col_idx = 0
    /\ col_file = NoCall
    /\ results_dicts = EmptyDict
    /\ mat_file = NoCall

Preallocate ==
    /\ col_pc = "preallocate"
    /\ results_dicts' = preallocate_results
    /\ col_pc' = "process"
    /\ UNCHANGED <<col_idx, col_file, mat_file>>
    /\ UNCHANGED <<aggVars, extVars, splitVars, peakVars, funVars, oldVars, pipeVars, cvVars>>

\* One iteration of the loop of process_files: the four extractors run on
\* the clip, then the entry is stored. The clip has n voiced frames and has
\* or has not an entry in the syllable data; the KeyError of a clip without
\* entry is caught nowhere and ends collect().
ProcessFile ==
    /\ col_pc = "process"
    /\ col_idx < Len(AllClips)
    /\ LET clip == AllClips[col_idx + 1]
           key == results_key(clip.category, clip.sub_dir, clip.file)
       IN  \E in_syldurs \in BOOLEAN :
           \E n \in (IF in_syldurs THEN 0..MaxVoiced ELSE {0}) :
               IF syldurs_lookup_raises(in_syldurs)
               THEN /\ col_pc' = "raised"
                    /\ col_file' = [status |-> "raised", error |-> "KeyError", key |-> key,
                                    in_syldurs |-> in_syldurs]
                    /\ UNCHANGED results_dicts
               ELSE /\ col_pc' = "process"
                    /\ col_file' = [status |-> "stored", error |-> "", key |-> key,
                                    in_syldurs |-> in_syldurs]
                    /\ results_dicts' = Put(results_dicts, key, PhraseOf(n))
    /\ col_idx' = col_idx + 1
    /\ UNCHANGED mat_file
    /\ UNCHANGED <<aggVars, extVars, splitVars, peakVars, funVars, oldVars, pipeVars, cvVars>>

\* save_results, after both process_files calls have returned
SaveResults ==
    /\ col_pc = "process"
    /\ col_idx = Len(AllClips)
    /\ mat_file' = [status |-> "saved", DATA |-> results_dicts]
    /\ col_pc' = "saved"
    /\ UNCHANGED <<col_idx, col_file, results_dicts>>
    /\ UNCHANGED <<aggVars, extVars, splitVars, peakVars, funVars, oldVars, pipeVars, cvVars>>

ColNext == Preallocate \/ ProcessFile \/ SaveResults

SpecCollect == ColInit /\ [][ColNext]_vars

----------------------------------------------------------------------------
(* The statistics of calculate_relevant_statistics in floating point. numpy
   computes in binary floating point, every operation rounded to the nearest
   representable number (ties to the even mantissa). The model keeps that
   arithmetic with a mantissa of FloatBits bits; numbers are counted in
   units of 1/FloatUnit. *)

FloatBits == 3
MaxConstLen == 6

FloatUnit == Pow2(FloatBits + 1)

\* the representable numbers of two binades
FloatSet ==
    {mantissa * Pow2(e) : mantissa \in Pow2(FloatBits - 1)..(Pow2(FloatBits) - 1), e \in {2, 3}}

\* the spacing of the representable numbers at x >= 0
RECURSIVE ulp_from(_, _)
ulp_from(x, u) == IF x < Pow2(FloatBits) * u THEN u ELSE ulp_from(x, 2 * u)

ulp_of(x) == ulp_from(x, 1)

\* the representable number nearest to num / den (num >= 0, den > 0)
fl_ratio(num, den) ==
    LET q == num \div den
        u == ulp_of(q)
        lower == (q \div u) * u
        twice_rest == 2 * (num - lower * den)
    IN  IF twice_rest < u * den THEN lower
        ELSE IF twice_rest > u * den THEN lower + u
        ELSE IF (lower \div u) % 2 = 0 THEN lower
        ELSE lower + u

\* the representable number nearest to num / den, num of either sign
fl_div(num, den) == IF num < 0 THEN 0 - fl_ratio(0 - num, den) ELSE fl_ratio(num, den)

fl(x) == fl_div(x, 1)

\* np.add.reduce of fewer than 8 numbers: one rounded addition after another
RECURSIVE float_add_all(_, _)
float_add_all(acc, a) ==
    IF a = <<>> THEN acc ELSE float_add_all(fl(acc + Head(a)), Tail(a))

\* a slip in the sum: the first element left out
float_sum_from_second(a) == float_add_all(0, Tail(a))

float_sum(a) == float_add_all(0, a)

\* np.mean(data)
float_mean(a) == fl_div(float_sum(a), Len(a))

\* np.sqrt, rounded to the nearest representable number
float_sqrt(v) ==
    LET r == np_sqrt(v * FloatUnit)
        u == ulp_of(r)
        lower == (r \div u) * u
    IN  IF 4 * v * FloatUnit < (2 * lower + u) * (2 * lower + u) THEN lower ELSE lower + u

\* np.std(data): sqrt(mean(abs(data - mean) ** 2))
float_std(a) ==
    LET arrmean == float_mean(a)
        x == [i \in 1..Len(a) |-> fl(a[i] - arrmean)]
        squares == [i \in 1..Len(a) |-> fl_ratio(x[i] * x[i], FloatUnit)]
    IN  float_sqrt(float_mean(squares))

\* np.percentile(data, q): lower + (upper - lower) * fraction at position
\* (n - 1) * q / 100 of the sorted data
float_percentile(a, q) ==
    LET sorted == Sort(a)
        pos == (Len(a) - 1) * q
        k == pos \div 100
        fraction == pos % 100
    IN  IF fraction = 0 THEN sorted[k + 1]
        ELSE fl(sorted[k + 1] + fl_div((sorted[k + 2] - sorted[k + 1]) * fraction, 100))

\* np.log of a number >= 1, rounded
float_log(x) == fl_div((Ln100(x) - Ln100(FloatUnit)) * FloatUnit, 100)

\* the five plain values of the record
float_statistics(a) ==
    [mean |-> float_mean(a),
     std |-> float_std(a),
     min5 |-> float_percentile(a, 5),
     max95 |-> float_percentile(a, 95),
     range |-> fl(float_percentile(a, 95) - float_percentile(a, 5))]

\* the series of n elements all equal to c
ConstantSeries(c, n) == [i \in 1..n |-> c]

\* one call on a constant series, of F0 values or of another feature
FloatArgsSet ==
    [data : {ConstantSeries(c, n) : c \in FloatSet, n \in 1..MaxConstLen},
     is_f0 : BOOLEAN]

FloatInit ==
    /\ AggIdle
    /\ ExtIdle
    /\ SplitIdle
    /\ PeakIdle
    /\ SylIdle
    /\ DeltaIdle
    /\ ColIdle
    /\ OldIdle
    /\ PipeIdle
    /\ ConcatIdle
    /\ stats_args \in FloatArgsSet
    /\ stats_result = NoCall

\* The call: the plain values of the series and, for an F0 series, those of
\* its logarithms.
CalculateStatisticsInFloat ==
    /\ stats_result = NoCall
    /\ stats_result' =
           [status |-> "returned",
            plain |-> float_statistics(stats_args.data),
            log |-> IF stats_args.is_f0
                    THEN float_statistics([i \in 1..Len(stats_args.data) |->
                                              float_log(stats_args.data[i])])
                    ELSE float_statistics(<<0>>)]
    /\ UNCHANGED <<stats_args, syl_args, syl_result, delta_args, delta_result>>
    /\ UNCHANGED <<aggVars, extVars, splitVars, peakVars, colVars, oldVars, pipeVars, cvVars>>

FloatNext == CalculateStatisticsInFloat

SpecFloat == FloatInit /\ [][FloatNext]_vars

----------------------------------------------------------------------------
(* The three stages in a row: phrase_split.process_files, collect_data.collect
   and stat_into_csv.main on the same recordings. The recordings carry the
   name of their sub-directory as first part of their name, so that the
   category main() takes from a file name is the key collect() stored the
   file under. *)

\* the .wav recordings of REF_DIR and SYNTH_DIR, all in the sub-directory
\* "original", in the order main() goes through them
PipeRecordings ==
    <<[pass |-> "references", sub_dir |-> "original", file |-> "original_a.wav"],
      [pass |-> "references", sub_dir |-> "original", file |-> "original_b.wav"],
      [pass |-> "syntheses", sub_dir |-> "original", file |-> "xtts_original_a.wav"]>>

\* the TextGrid files of a recording: a "Phrases" tier followed by another tier
PipeTextGridSet ==
    {<<[class |-> "IntervalTier", name |-> "Phrases", intervals |-> IntervalsOf(texts)],
       [class |-> "IntervalTier", name |-> "Words", intervals |-> IntervalsOf(<<"w">>)]>> :
        texts \in SeqsUpTo(TextSet, MaxIntervals)}

\* output_filename = f"{base_filename}_phrase_{idx}.wav" in the output
\* directory output_base_dir/file_type/category, one for every phrase
exported_clips(recording, phrase_list) ==
    {[pass |-> recording.pass, sub_dir |-> recording.sub_dir,
      file |-> splitext(recording.file) \o "_phrase_" \o ToString(idx) \o ".wav"] :
        idx \in 1..Len(phrase_list)}

\* what one iteration of phrase_split.process_files exports for a recording
segmented(recording, tiers, audio_exists) ==
    LET phrase_list == parse_textgrid(tiers)
    IN  IF phrase_list = <<>> THEN {}
        ELSE IF ~audio_exists THEN {}
        ELSE exported_clips(recording, phrase_list)

\* the keys collect() stores: one for every clip of the phrase directories,
\* ref_results_dicts["Reference"] under 'references' and
\* synth_results_dicts["Synthesis"] under 'syntheses'
collected(clips) ==
    {results_key(clip.pass, clip.sub_dir, clip.file) : clip \in clips}

\* mat_data_dict[pass][category][base_file_name] of main(): the phrase keys
\* of the recording in the store
phrases_in_store(store, recording) ==
    LET base == base_file_name(recording.pass, recording.file)
    IN  {key \in store : /\ key[1] = recording.pass
                         /\ key[2] = category(base)
                         /\ key[3] = base}

\* the subscript [base_file_name] raises KeyError when the store has no
\* entry of the recording
lookup_raises(store, recording) == phrases_in_store(store, recording) = {}

PipeInit ==
    /\ AggIdle
    /\ ExtIdle
    /\ SplitIdle
    /\ PeakIdle
    /\ FunIdle
    /\ ColIdle
    /\ OldIdle
    /\ ConcatIdle
    /\ pipe_pc = "segment"
    /\ pipe_idx = 0
    /\ phrase_dir = {}
    /\ pipe_store = NoCall
    /\ pipe_rows = {}
    /\ pipe_csv = NoCall

\* phrase_split.process_files: the TextGrid file of the next recording
SegmentRecording ==
    /\ pipe_pc = "segment"
    /\ pipe_idx < Len(PipeRecordings)
    /\ \E tiers \in PipeTextGridSet, audio_exists \in BOOLEAN :
          phrase_dir' = phrase_dir
                            \cup segmented(PipeRecordings[pipe_idx + 1], tiers, audio_exists)
    /\ pipe_idx' = pipe_idx + 1
    /\ UNCHANGED <<pipe_pc, pipe_store, pipe_rows, pipe_csv>>
    /\ UNCHANGED <<aggVars, extVars, splitVars, peakVars, funVars, colVars, oldVars, cvVars>>

\* collect_data.collect on the phrase directories (the syllable data holds
\* every clip): the store is saved
CollectFeatures ==
    /\ pipe_pc = "segment"
    /\ pipe_idx = Len(PipeRecordings)
    /\ pipe_store' = [status |-> "saved", DATA |-> collected(phrase_dir)]
    /\ pipe_pc' = "aggregate"
    /\ pipe_idx' = 0
    /\ UNCHANGED <<phrase_dir, pipe_rows, pipe_csv>>
    /\ UNCHANGED <<aggVars, extVars, splitVars, peakVars, funVars, colVars, oldVars, cvVars>>

\* stat_into_csv.main: the head of the file loop looks the recording up,
\* the body makes its row
AggregateRecording ==
    /\ pipe_pc = "aggregate"
    /\ pipe_idx < Len(PipeRecordings)
    /\ IF lookup_raises(pipe_store.DATA, PipeRecordings[pipe_idx + 1])
       THEN /\ pipe_pc' = "raised"
            /\ UNCHANGED pipe_rows
       ELSE /\ pipe_rows' = pipe_rows \cup {PipeRecordings[pipe_idx + 1].file}
            /\ UNCHANGED pipe_pc
    /\ pipe_idx' = pipe_idx + 1
    /\ UNCHANGED <<phrase_dir, pipe_store, pipe_csv>>
    /\ UNCHANGED <<aggVars, extVars, splitVars, peakVars, funVars, colVars, oldVars, cvVars>>

\* the two tables are written after the last recording
WriteTables ==
    /\ pipe_pc = "aggregate"
    /\ pipe_idx = Len(PipeRecordings)
    /\ pipe_csv' = [status |-> "written", rows |-> pipe_rows]
    /\ pipe_pc' = "done"
    /\ UNCHANGED <<pipe_idx, phrase_dir, pipe_store, pipe_rows>>
    /\ UNCHANGED <<aggVars, extVars, splitVars, peakVars, funVars, colVars, oldVars, cvVars>>

PipeNext == SegmentRecording \/ CollectFeatures \/ AggregateRecording \/ WriteTables

SpecPipeline == PipeInit /\ [][PipeNext]_vars

----------------------------------------------------------------------------
(* voice-quality/verify_commonvoice.py: concatenate_clips *)

\* validated.tsv names 0..MaxCvClients clients
MaxCvClients == 6

\* one client at most has MaxCvClips clips on disk, the others have one
MaxCvClips == 5

\* sorted_clients[:5]
TopClients == 5

\* if current_duration >= 20000
SegmentMs == 20000

\* if segment_count == 4: break
MaxSegments == 4

\* len(clip) of a clip in ms, and len(pause_audio)
ClipMsSet == {9500, 19500}

PauseMsSet == {500}

\* client_clips after the TSV file is read: the clients in the order of
\* their first row, each with the number of its clips found on disk
ClientClipsSet ==
    {[j \in 1..n |-> [client_id |-> j, clips |-> IF j = long THEN MaxCvClips ELSE 1]] :
        n \in 0..MaxCvClients, long \in 0..MaxCvClients}

\* the place of an item in a list sorted by descending number of clips:
\* after the items that are not shorter (the sort is stable)
RECURSIVE insert_by_clips(_, _)
insert_by_clips(item, sorted) ==
    IF sorted = <<>> THEN <<item>>
    ELSE IF Head(sorted).clips >= item.clips
    THEN <<Head(sorted)>> \o insert_by_clips(item, Tail(sorted))
    ELSE <<item>> \o sorted

\* sorted(client_clips.items(), key=lambda item: len(item[1]), reverse=True)
\* of the first k items
RECURSIVE sorted_clients(_, _)
sorted_clients(clients, k) ==
    IF k = 0 THEN <<>>
    ELSE insert_by_clips(clients[k], sorted_clients(clients, k - 1))

\* top_5_clients = sorted_clients[:5]
top_5_clients(clients) ==
    LET sorted == sorted_clients(clients, Len(clients))
    IN  SubSeq(sorted, 1, IF Len(sorted) < TopClients THEN Len(sorted) ELSE TopClients)

\* a slip in the test of the duration: a segment of exactly 20 s not exported
segment_is_full_above(duration) == duration > SegmentMs

\* if current_duration >= 20000
segment_is_full(duration) == duration >= SegmentMs

\* f"..._concat_{segment_count + 1}.mp3"
remainder_number(count) == count + 1

\* concatenate_clips has read the TSV file, sorted the clients and loaded
\* the pause; no client is processed yet
ConcatInit ==
    /\ AggIdle
    /\ ExtIdle
    /\ SplitIdle
    /\ PeakIdle
    /\ FunIdle
    /\ ColIdle
    /\ OldIdle
    /\ PipeIdle
    /\ cv_pc = "client"
    /\ client_clips \in ClientClipsSet
    /\ pause_audio \in PauseMsSet
    /\ speaker_file = <<>>
    /\ client_idx = 0
    /\ clip_idx = 0
    /\ segment_count = 0
    /\ current_segment = 0
    /\ current_duration = 0
    /\ cv_output = <<>>

\* the head of the loop over top_5_clients
StartClient ==
    /\ cv_pc = "client"
    /\ client_idx < Len(top_5_clients(client_clips))
    /\ client_idx' = client_idx + 1
    /\ segment_count' = 0
    /\ current_segment' = 0
    /\ current_duration' = 0
    /\ speaker_file' = Append(speaker_file,
                              <<client_idx + 1, top_5_clients(client_clips)[client_idx + 1].client_id>>)
    /\ clip_idx' = 0
    /\ cv_pc' = "clip"
    /\ UNCHANGED <<client_clips, pause_audio, cv_output>>
    /\ UNCHANGED <<aggVars, extVars, splitVars, peakVars, funVars, colVars, oldVars, pipeVars>>

\* one turn of the loop over the clips of the client: the clip is loaded
\* and appended with a pause; a segment that is full is exported
AppendClip ==
    /\ cv_pc = "clip"
    /\ \E clip \in ClipMsSet :
          LET duration == current_duration + (clip + pause_audio)
              segment == current_segment + (clip + pause_audio)
          IN  IF segment_is_full(duration)
              THEN /\ segment_count' = segment_count + 1
                   /\ cv_output' = Put(cv_output, <<client_idx, segment_count + 1>>, segment)
                   /\ current_segment' = 0
                   /\ current_duration' = 0
                   /\ cv_pc' = IF segment_count + 1 = MaxSegments
                                  \/ clip_idx + 1 = top_5_clients(client_clips)[client_idx].clips
                               THEN "rest" ELSE "clip"
              ELSE /\ current_segment' = segment
                   /\ current_duration' = duration
                   /\ cv_pc' = IF clip_idx + 1 = top_5_clients(client_clips)[client_idx].clips
                               THEN "rest" ELSE "clip"
                   /\ UNCHANGED <<segment_count, cv_output>>
    /\ clip_idx' = clip_idx + 1
    /\ UNCHANGED <<client_clips, pause_audio, speaker_file, client_idx>>
    /\ UNCHANGED <<aggVars, extVars, splitVars, peakVars, funVars, colVars, oldVars, pipeVars>>

\* after the loop over the clips: what remains is exported if fewer than 4
\* segments were exported and anything remains
ExportRemainder ==
    /\ cv_pc = "rest"
    /\ IF segment_count < MaxSegments /\ current_segment > 0
       THEN cv_output' = Put(cv_output, <<client_idx, remainder_number(segment_count)>>,
                             current_segment)
       ELSE UNCHANGED cv_output
    /\ cv_pc' = "client"
    /\ UNCHANGED <<client_clips, pause_audio, speaker_file, client_idx, clip_idx,
                   segment_count, current_segment, current_duration>>
    /\ UNCHANGED <<aggVars, extVars, splitVars, peakVars, funVars, colVars, oldVars, pipeVars>>

\* the loop over the clients is through: speaker_id.txt is closed
FinishClients ==
    /\ cv_pc = "client"
    /\ client_idx = Len(top_5_clients(client_clips))
    /\ cv_pc' = "done"
    /\ UNCHANGED <<client_clips, pause_audio, speaker_file, client_idx, clip_idx,
                   segment_count, current_segment, current_duration, cv_output>>
    /\ UNCHANGED <<aggVars, extVars, splitVars, peakVars, funVars, colVars, oldVars, pipeVars>>

ConcatNext == StartClient \/ AppendClip \/ ExportRemainder \/ FinishClients

SpecConcat == ConcatInit /\ [][ConcatNext]_vars

----------------------------------------------------------------------------
(* python/data_extraction/csv_data_extraction.py: the older CSV pipeline *)

\* a directory holds 0..MaxOldFiles .wav files
MaxOldFiles == 1

\* a recording has 0..MaxOldFrames pitch frames
MaxOldFrames == 2

\* F0 of a pitch frame in Hz: 0 is an unvoiced frame
OldF0Set == {0, 150, 200}

\* max(i - 10, 0) and min(i + 10, len(f0_values)): the half-width of the window
OldWindow == 10

\* the directories of the two nested loops, in the order they are visited
file_types == <<"original", "enhanced", "denoised">>

csv_names == <<"synthesized.csv", "references.csv">>

directories ==
    [d \in 1..(Len(file_types) * Len(csv_names)) |->
        [file_type |-> file_types[((d - 1) \div Len(csv_names)) + 1],
         csv_name |-> csv_names[((d - 1) % Len(csv_names)) + 1]]]

\* results = {file_type: {csv_name: [] ...} ...}
empty_results == [d \in 1..Len(directories) |-> <<>>]

\* the loop over range(len(f0_values)), from index i on: one slope for every
\* segment of two or more values
RECURSIVE tilt_delta_values_from(_, _)
tilt_delta_values_from(f0, i) ==
    IF i >= Len(f0) THEN <<>>
    ELSE LET segment == window_segment(f0, i, OldWindow)
         IN  (IF Len(segment) < 2 THEN <<>>
              ELSE <<polyfit_slope(np_arange(Len(segment)), segment)>>)
             \o tilt_delta_values_from(f0, i + 1)

\* return mean_f0_delta, sd_f0_delta, tilt_delta_values
delta_return(tilt_delta_values) ==
    <<np_mean(tilt_delta_values), np_std(tilt_delta_values), tilt_delta_values>>

\* get_f0_delta_statistics(f0_values) of the older pipeline: the tuple returned
old_get_f0_delta_statistics(f0) ==
    IF Len(f0) < 2 THEN <<0, 0>>
    ELSE LET tilt_delta_values == tilt_delta_values_from(f0, 0)
         IN  IF Len(tilt_delta_values) = 0 THEN <<0, 0>>
             ELSE delta_return(tilt_delta_values)

\* the recordings a directory can hold, by their pitch frames
OldPitchSet == SeqsUpTo(OldF0Set, MaxOldFrames)

\* the row of a file, from the percentiles of get_f0_statistics and the
\* pair unpacked from get_f0_delta_statistics (the columns that come from
\* Praat, from the spectrum and from MATLAB are left out)
row_of(file, f0, delta) ==
    [file_name |-> file,
     f0_max |-> np_percentile(f0, 95),
     f0_min |-> np_percentile(f0, 5),
     f0_range |-> np_percentile(f0, 95) - np_percentile(f0, 5),
     f0_delta_mean |-> delta[1],
     f0_delta_sd |-> delta[2]]

\* calculate_measurements starts: no directory listed yet
OldInit ==
    /\ AggIdle
    /\ ExtIdle
    /\ SplitIdle
    /\ PeakIdle
    /\ FunIdle
    /\ ColIdle
    /\ PipeIdle
    /\ ConcatIdle
    /\ old_pc = "list"
    /\ old_directory = 0
    /\ old_files = 0
    /\ old_file = 0
    /\ old_delta = NoCall
    /\ old_results = empty_results
    /\ old_csv = NoCall

\* files = [file for file in os.listdir(directory) if file.endswith(".wav")]
\* for the next directory
ListDirectory ==
    /\ old_pc = "list"
    /\ old_directory < Len(directories)
    /\ old_directory' = old_directory + 1
    /\ \E n \in 0..MaxOldFiles :
          /\ old_files' = n
          /\ old_pc' = IF n = 0 THEN "list" ELSE "file"
    /\ old_file' = 0
    /\ UNCHANGED <<old_delta, old_results, old_csv>>
    /\ UNCHANGED <<aggVars, extVars, splitVars, peakVars, funVars, colVars, pipeVars, cvVars>>

\* the body of the loop over the files of a directory
MeasureFile ==
    /\ old_pc = "file"
    /\ \E track \in OldPitchSet :
          LET file == <<old_directory, old_file + 1>>
              f0 == get_f0_statistics(track)
              delta == old_get_f0_delta_statistics(f0)
          IN  IF np_percentile_raises(f0)
              THEN /\ old_pc' = "raised"
                   /\ old_delta' = [status |-> "raised", error |-> "IndexError"]
                   /\ UNCHANGED <<old_file, old_results>>
              ELSE IF Len(delta) # 2
              THEN \* mean_f0_delta, sd_f0_delta = <three values>
                   /\ old_pc' = "raised"
                   /\ old_delta' = [status |-> "raised", error |-> "ValueError",
                                    file |-> file, f0_values |-> f0, value |-> delta]
                   /\ UNCHANGED <<old_file, old_results>>
              ELSE /\ old_delta' = [status |-> "returned", file |-> file,
                                    f0_values |-> f0, value |-> delta]
                   /\ old_results' =
                          [old_results EXCEPT ![old_directory] =
                              Append(@, row_of(file, f0, delta))]
                   /\ old_file' = old_file + 1
                   /\ old_pc' = IF old_file + 1 = old_files THEN "list" ELSE "file"
    /\ UNCHANGED <<old_directory, old_files, old_csv>>
    /\ UNCHANGED <<aggVars, extVars, splitVars, peakVars, funVars, colVars, pipeVars, cvVars>>

\* the loops of df.to_csv after the last directory
WriteCsvFiles ==
    /\ old_pc = "list"
    /\ old_directory = Len(directories)
    /\ old_csv' = [status |-> "written", rows |-> old_results]
    /\ old_pc' = "done"
    /\ UNCHANGED <<old_directory, old_files, old_file, old_delta, old_results>>
    /\ UNCHANGED <<aggVars, extVars, splitVars, peakVars, funVars, colVars, pipeVars, cvVars>>

OldNext == ListDirectory \/ MeasureFile \/ WriteCsvFiles

SpecOld == OldInit /\ [][OldNext]_vars

----------------------------------------------------------------------------
(* Claims about the aggregation pass (specification Spec) *)

StatNameSet == {StatNames[i] : i \in 1..Len(StatNames)}

\* the skip policy of the aggregator, as the specification words it
SkippedEntry(name, d) ==
    \/ Len(d) = 0
    \/ name = "f0_delta" /\ Len(d) = 3 /\ d[1] = 0 /\ d[2] = 0

\* the phrase keys of a file whose entries are in the store
PhraseKeysOf(p, file_name) ==
    {k \in 1..MaxPhrases : mat_key(p, file_name, k) \in DOMAIN mat_data_dict}

\* the file whose phrases are being processed
CurrentFile == files_of(pass)[file_idx]

\* whether entry i of phrase key k of the file has been through the inner loop
Processed(p, file_name, k, i) ==
    /\ mat_key(p, file_name, k) \in DOMAIN mat_data_dict
    /\ (pc = "entry" /\ p = pass /\ file_name = CurrentFile /\ k = phrase_idx) => i < stat_idx

\* entry i of phrase key k of the file
EntryOf(p, file_name, k, i) == mat_data_dict[mat_key(p, file_name, k)][StatNames[i]]

\* the concatenation, in phrase order, of the non-skipped processed entries of
\* feature StatNames[i] of the file, over the phrase keys k..MaxPhrases
RECURSIVE PooledFrom(_, _, _, _)
PooledFrom(p, file_name, i, k) ==
    IF k > MaxPhrases THEN <<>>
    ELSE (IF /\ Processed(p, file_name, k, i)
                /\ ~SkippedEntry(StatNames[i], EntryOf(p, file_name, k, i))
             THEN EntryOf(p, file_name, k, i)
             ELSE <<>>)
         \o PooledFrom(p, file_name, i, k + 1)

Pooled(p, file_name, i) == PooledFrom(p, file_name, i, 1)

\* the clip-level part of a row is the statistics of the pooled series
RowIsPooled(p, file_name, row) ==
    \A i \in 1..Len(StatNames) :
        LET expected == measure(Pooled(p, file_name, i), StatNames[i], FALSE)
        IN  \A key \in DOMAIN expected : key \in DOMAIN row /\ row[key] = expected[key]

\* C2: the clip-level statistics of every file are computed once over the
\* concatenation, in phrase order, of the raw series of the file's non-skipped
\* phrase entries: the pooled series the loop builds is that concatenation,
\* and, whenever a file has been finished (the loop stands before the next
\* file or before the report), the clip-level values of every row are
\* calculate_relevant_statistics of the pooled series of its file (not an
\* average of phrase-level statistics).
C2_ClipLevelIsPooled ==
    /\ pc \in {"entry", "clip", "raised"} =>
           \A i \in 1..Len(StatNames) :
               clip_level_data[StatNames[i]] = Pooled(pass, CurrentFile, i)
    /\ pc \in {"file", "report"} =>
           /\ \A file_name \in DOMAIN all_ref_stats :
                  RowIsPooled("references", file_name, all_ref_stats[file_name])
           /\ \A file_name \in DOMAIN all_synth_stats :
                  RowIsPooled("syntheses", file_name, all_synth_stats[file_name])

\* C2 witness: a row of a file with two non-skipped f0 entries, whose pooled
\* mean differs from the mean of the two phrase means
C2_Witness ==
    \E file_name \in DOMAIN all_ref_stats :
        /\ PhraseKeysOf("references", file_name) = {1, 2}
        /\ \A k \in {1, 2} :
               Len(mat_data_dict[mat_key("references", file_name, k)]["f0"]) > 0
        /\ all_ref_stats[file_name]["f0_mean"] # all_ref_stats[file_name]["f0_mean_phrase"]

\* C3: a step of the inner loop that reads an f0_delta entry of exactly three
\* elements whose first two are zero, whatever the third, adds nothing to the
\* pooled series, collects no phrase-level statistic and raises the skip
\* counter by exactly 1.
C3_ZeroDeltaSkipped ==
    [][(/\ pc = "entry"
        /\ StatNames[stat_idx] = "f0_delta"
        /\ Len(data') = 3 /\ data'[1] = 0 /\ data'[2] = 0)
       => (/\ empty_data_count' = empty_data_count + 1
           /\ clip_level_data' = clip_level_data
           /\ phrase_stats' = phrase_stats)]_vars

\* C3 witness: the entry [0, 0, x] with x # 0 has just been read and counted
C3_Witness ==
    /\ stat_name = "f0_delta"
    /\ Len(data) = 3 /\ data[1] = 0 /\ data[2] = 0 /\ data[3] # 0
    /\ empty_data_count >= 1
    /\ clip_level_data["f0_delta"] = <<>>

\* every (pass, file, phrase key, feature) the store can hold an entry for
EntryIds ==
    UNION {{<<p, files_of(p)[f], k, i>> :
                f \in 1..Len(files_of(p)), k \in 1..MaxPhrases, i \in 1..Len(StatNames)} :
           p \in {"references", "syntheses"}}

\* the processed entries, over both passes, that the skip policy skips
SkippedEntries ==
    {e \in EntryIds :
        /\ Processed(e[1], e[2], e[3], e[4])
        /\ SkippedEntry(StatNames[e[4]], EntryOf(e[1], e[2], e[3], e[4]))}

\* the processed entries of feature StatNames[i] of the current file that are
\* not skipped
KeptOfCurrent(i) ==
    {k \in 1..MaxPhrases :
        /\ Processed(pass, CurrentFile, k, i)
        /\ ~SkippedEntry(StatNames[i], EntryOf(pass, CurrentFile, k, i))}

\* C4: the skip counter is, at every moment of the run, the number of
\* (file, phrase, feature) entries skipped so far over both passes (it starts
\* at 0, goes up by 1 per skipped entry and is never reset); a skipped entry
\* leaves no value in the phrase-level collections (it is not zero-filled);
\* and the count printed at the end is the total of the run.
C4_SkipCountIsTotal ==
    /\ empty_data_count = Cardinality(SkippedEntries)
    /\ pc \in {"entry", "clip", "raised"} =>
           \A i \in 1..Len(StatNames) :
               LET key == StatNames[i] \o "_mean_phrase"
               IN  IF KeptOfCurrent(i) = {} THEN key \notin DOMAIN phrase_stats
                   ELSE Len(phrase_stats[key]) = Cardinality(KeptOfCurrent(i))
    /\ pc = "done" => stdout = <<Cardinality(SkippedEntries)>>

\* C4 witness: the run has ended and printed a count that includes skipped
\* entries of the reference pass and of the synthesis pass
C4_Witness ==
    /\ pc = "done"
    /\ \E e \in SkippedEntries : e[1] = "references"
    /\ \E e \in SkippedEntries :
           e[1] = "syntheses" /\ Len(EntryOf(e[1], e[2], e[3], e[4])) = 0
    /\ stdout[1] >= 2

\* the value of a key in a row (j = 0), or in the record collected from the
\* j-th non-skipped phrase (j > 0)
ValueAt(stats, key, j) == IF j = 0 THEN stats[key] ELSE stats[key][j]

\* the three ranges of one record
RangesAgree(stats, name, sfx, j) ==
    /\ ValueAt(stats, name \o "_range" \o sfx, j)
           = ValueAt(stats, name \o "_max95" \o sfx, j)
             - ValueAt(stats, name \o "_min5" \o sfx, j)
    /\ (name \in {"f0", "syllable_durations"}) =>
           ValueAt(stats, name \o "_log_range" \o sfx, j)
               = ValueAt(stats, name \o "_log_max95" \o sfx, j)
                 - ValueAt(stats, name \o "_log_min5" \o sfx, j)
    /\ (name = "f0_delta") =>
           ValueAt(stats, name \o "_abs_log_range" \o sfx, j)
               = ValueAt(stats, name \o "_abs_log_max_95" \o sfx, j)
                 - ValueAt(stats, name \o "_abs_log_min_5" \o sfx, j)

\* C6: in the record of every call of calculate_relevant_statistics, the
\* range is the 95th percentile minus the 5th percentile, for the raw, the log
\* and the absolute-log variants: at clip level in every row, and at phrase
\* level in every record collected from a phrase.
C6_RangeIsMax95MinusMin5 ==
    /\ \A file_name \in DOMAIN all_ref_stats : \A name \in StatNameSet :
           RangesAgree(all_ref_stats[file_name], name, "", 0)
    /\ \A file_name \in DOMAIN all_synth_stats : \A name \in StatNameSet :
           RangesAgree(all_synth_stats[file_name], name, "", 0)
    /\ pc \in {"entry", "clip", "raised"} =>
           \A name \in StatNameSet :
               (name \o "_range_phrase") \in DOMAIN phrase_stats =>
                   \A j \in 1..Len(phrase_stats[name \o "_range_phrase"]) :
                       RangesAgree(phrase_stats, name, "_phrase", j)

\* C6 witness: a row with a non-zero f0 range and a phrase-level record of a
\* delta series with a non-zero absolute-log range
C6_Witness ==
    /\ \E file_name \in DOMAIN all_ref_stats : all_ref_stats[file_name]["f0_range"] # 0
    /\ pc = "clip"
    /\ "f0_delta_abs_log_range_phrase" \in DOMAIN phrase_stats
    /\ phrase_stats["f0_delta_abs_log_range_phrase"][1] # 0

\* C10: data-quality problems never raise or abort the batch: main() never
\* ends with an exception.
C10_NeverRaises == pc # "raised"

\* a file has just been finished: the loop stands before the next file or
\* before the report, and the collections still hold what the file left
AfterFile == pc \in {"file", "report"} /\ ~(pass = "references" /\ file_idx = 1)

\* the pass and the name of the file that has just been finished
LastPass ==
    IF pc = "report" \/ file_idx > 1 THEN pass ELSE "references"

LastFile ==
    IF pc = "report" THEN files_of(pass)[file_idx]
    ELSE IF file_idx > 1 THEN files_of(pass)[file_idx - 1]
    ELSE ref_files[Len(ref_files)]

\* the row recorded for the file that has just been finished
LastRow ==
    IF LastPass = "references" THEN all_ref_stats[LastFile] ELSE all_synth_stats[LastFile]

\* key.endswith("_phrase")
EndsInPhrase(key) ==
    Len(key) >= 7 /\ SubSeq(key, Len(key) - 6, Len(key)) = "_phrase"

\* the table has one row for each file name of the list and no other row,
\* and the row of a file holds file_name and the columns of its record
OneRowPerFile(table, files, stats) ==
    /\ \A f \in 1..Len(files) :
           /\ Cardinality({r \in table : r["file_name"] = files[f]}) = 1
           /\ \A r \in table : r["file_name"] = files[f] =>
                  /\ DOMAIN r = (DOMAIN stats[files[f]]) \cup {"file_name"}
                  /\ \A key \in DOMAIN stats[files[f]] : r[key] = stats[files[f]][key]
    /\ \A r \in table : \E f \in 1..Len(files) : r["file_name"] = files[f]

RECURSIVE PhraseRecordsFrom(_, _, _, _)
PhraseRecordsFrom(p, file_name, i, k) ==
    IF k > MaxPhrases THEN <<>>
    ELSE (IF /\ Processed(p, file_name, k, i)
                /\ ~SkippedEntry(StatNames[i], EntryOf(p, file_name, k, i))
             THEN <<measure(EntryOf(p, file_name, k, i), StatNames[i], TRUE)>>
             ELSE <<>>)
         \o PhraseRecordsFrom(p, file_name, i, k + 1)

\* the values in the row are the means of the values of the records
RowIsMeanOfRecords(row, records) ==
    \A key \in DOMAIN records[1] :
        row[key] = Sum([j \in 1..Len(records) |-> records[j][key]]) \div Len(records)

\* C13: in the row of a file, the value under every phrase-level key is the
\* arithmetic mean of that statistic over the phrases of the file whose entry
\* for the feature was not skipped: the sum of the per-phrase values divided
\* by their number, a skipped entry adding neither a value nor to the number.
C13_PhraseLevelIsMeanOverPhrases ==
    AfterFile =>
        \A i \in 1..Len(StatNames) :
            LET records == PhraseRecordsFrom(LastPass, LastFile, i, 1)
            IN  records # <<>> /\ RowIsMeanOfRecords(LastRow, records)

\* C13 witness: a reference file of two phrases, the first with one voiced
\* frame (its delta entry skipped), the second with two: the f0 value is the
\* mean of two phrase means, the delta value comes from the second phrase alone
C13_Witness ==
    /\ AfterFile
    /\ LastPass = "references"
    /\ PhraseKeysOf("references", LastFile) = {1, 2}
    /\ mat_data_dict[mat_key("references", LastFile, 1)] = PhraseOf(1)
    /\ mat_data_dict[mat_key("references", LastFile, 2)] = PhraseOf(2)
    /\ LastRow["f0_mean_phrase"] = 162
    /\ LastRow["f0_delta_mean_phrase"] = np_mean(PhraseOf(2)["f0_delta"])

\* the files that have a row in a saved table
FilesIn(table) == {r["file_name"] : r \in table}

AtFirstEntry == pc = "entry" /\ phrase_idx = 1 /\ stat_idx = 1

\* the collections of a file hold nothing of the file before
FileStartsEmpty ==
    AtFirstEntry =>
        /\ \A n \in DOMAIN clip_level_data : clip_level_data[n] = <<>>
        /\ phrase_stats = EmptyDict

\* the row just recorded is made of the entries of its own file
RowIsOfOwnEntries ==
    AfterFile =>
        /\ RowIsPooled(LastPass, LastFile, LastRow)
        /\ \A i \in 1..Len(StatNames) :
               RowIsMeanOfRecords(LastRow, PhraseRecordsFrom(LastPass, LastFile, i, 1))

\* a step leaves every recorded row as it is
RowsStay ==
    /\ \A file_name \in DOMAIN all_ref_stats :
           file_name \in DOMAIN all_ref_stats'
               /\ all_ref_stats'[file_name] = all_ref_stats[file_name]
    /\ \A file_name \in DOMAIN all_synth_stats :
           file_name \in DOMAIN all_synth_stats'
               /\ all_synth_stats'[file_name] = all_synth_stats[file_name]

\* C19: in the aggregation the pooled clip-level series and the lists of
\* per-phrase statistics are empty when the first entry of a file is read,
\* whatever the files before have left; the row recorded for a file is the
\* statistics of that file's own non-skipped entries; and no step changes or
\* removes a row once it is recorded. Only the skip counter is carried from
\* file to file.
C19_FilesShareOnlyTheSkipCounter ==
    [](FileStartsEmpty /\ RowIsOfOwnEntries) /\ [][RowsStay]_vars

\* C19 witness: the file of the second pass starts after a first file that
\* pooled values and skipped entries: the counter has carried over, the
\* collections are empty, the row of the first file is recorded
C19_Witness ==
    /\ AtFirstEntry
    /\ pass = "syntheses"
    /\ empty_data_count > 0
    /\ "IDS_a.wav" \in DOMAIN all_ref_stats
    /\ clip_level_data["f0"] = <<>>
    /\ phrase_stats = EmptyDict

\* the value is one a logarithm is defined for, as the record takes it:
\* log(x) for F0 and syllable series, log(|x| + 1e-10) for delta series
LogDefinedFor(name, x) ==
    /\ (is_f0_of(name) \/ is_syllable_of(name)) => x > 0
    /\ is_delta_of(name) => Abs(x) >= 0

LogDefinedForSeries(name, d) == \A i \in 1..Len(d) : LogDefinedFor(name, d[i])

----------------------------------------------------------------------------
(* Claims about the extractors (specification SpecExtract) *)

\* the frames of an F0 series that count as voiced
VoicedFrames(f0) == {i \in 1..Len(f0) : f0[i] > 100}

\* the position of frame i among the frames of S, counted from 1
RankIn(S, i) == Cardinality({j \in S : j <= i})

\* out holds exactly the elements of src at the indices of S, by ascending index
KeptInOrder(out, src, S) ==
    /\ Len(out) = Cardinality(S)
    /\ \A i \in S : out[RankIn(S, i)] = src[i]

\* C1: get_f0_statistics returns exactly the frames of the pitch track whose
\* F0 is strictly above 100 Hz, in their original order: as many values as
\* there are such frames, the value of the k-th such frame at position k.
C1_F0IsVoicedFramesInOrder ==
    ext_pc \in {"tilt", "done"} => KeptInOrder(f0_values, pitch, VoicedFrames(pitch))

\* C1's case: a track with two voiced frames around a frame at the threshold
C1_Witness ==
    /\ ext_pc = "tilt"
    /\ pitch = <<200, 100, 150>>
    /\ f0_values = <<200, 150>>

\* the tilt of every frame of the spectrogram, masked or not
FrameTilts == [t \in 1..Len(magnitude) |-> calculate_spectral_tilt(magnitude[t])]

\* C8: when the spectrogram has more frames than the F0 series, the F0
\* series is extended with zeros at its end to the spectrogram length before
\* the mask is taken, and the tilt values are those of the frames whose own
\* F0 is above 100: no frame beyond the F0 length contributes a value.
C8_PaddedFramesContributeNothing ==
    (ext_pc = "done" /\ Len(pitch) < Len(magnitude)) =>
        /\ Len(f0_adjusted) = Len(magnitude)
        /\ \A i \in 1..Len(f0_adjusted) :
               f0_adjusted[i] = IF i <= Len(pitch) THEN pitch[i] ELSE 0
        /\ KeptInOrder(spectral_tilt_values, FrameTilts, VoicedFrames(pitch))

\* C8's case: two voiced frames, a spectrogram two frames longer
C8_Witness ==
    /\ ext_pc = "done"
    /\ pitch = <<150, 200>>
    /\ Len(magnitude) = 4
    /\ f0_adjusted = <<150, 200, 0, 0>>
    /\ Len(spectral_tilt_values) = 2

\* C9 as stated: whatever the two lengths, there are as many tilt values as
\* pitch frames with F0 above 100 (the length of the voiced-F0 series).
C9_TiltCountIsVoicedCount ==
    ext_pc = "done" => Len(spectral_tilt_values) = Len(f0_values)

\* C9: there are as many tilt values as pitch frames with F0 above 100 that
\* have a spectrogram frame (index within the spectrogram length); this is
\* the length of the voiced-F0 series whenever the F0 series is not longer
\* than the spectrogram.
C9_TiltCountIsVoicedCountWithinSpectrogram ==
    ext_pc = "done" =>
        /\ Len(spectral_tilt_values) =
               Cardinality({i \in VoicedFrames(pitch) : i <= Len(magnitude)})
        /\ Len(pitch) <= Len(magnitude) => Len(spectral_tilt_values) = Len(f0_values)

\* C9's case: a voiced frame beyond the last spectrogram frame gets no tilt
C9_Witness ==
    /\ ext_pc = "done"
    /\ pitch = <<150, 0, 200>>
    /\ Len(magnitude) = 2
    /\ Len(f0_values) = 2
    /\ Len(spectral_tilt_values) = 1

----------------------------------------------------------------------------
(* Claims about the phrase segmentation (specification SpecSplit) *)

\* the file has a "Phrases" interval tier, at whatever position
HasPhrasesTier(tiers) == \E i \in 1..Len(tiers) : IsPhrasesTier(tiers[i])

\* the intervals with text of the file's "Phrases" interval tier
PhraseIntervals(tiers) ==
    with_text(tiers[CHOOSE i \in 1..Len(tiers) : IsPhrasesTier(tiers[i])].intervals)

\* the clips written for the file of the last iteration, as <<number, start, end>>
ClipsWritten ==
    {<<c.idx, c.start_time, c.end_time>> :
        c \in {e \in exported : e.base_filename = textgrid_file.base_filename}}

\* C5: for a file that has a "Phrases" interval tier at any position among
\* its tiers (its audio present, its path naming a corpus), the clips written
\* are exactly one per interval of that tier with text, numbered 1..k in tier
\* order, clip n spanning the milliseconds from the start to the end of the
\* n-th such interval.
C5_OneClipPerPhraseInterval ==
    (/\ files_done > 0
     /\ textgrid_file.audio_exists
     /\ textgrid_file.corpus \in {"references", "syntheses"}
     /\ HasPhrasesTier(textgrid_file.tiers)) =>
        LET labelled == PhraseIntervals(textgrid_file.tiers)
        IN  ClipsWritten =
                {<<n, to_ms(labelled[n].xmin), to_ms(labelled[n].xmax)>> : n \in 1..Len(labelled)}

\* the file gives the segmentation nothing to cut: no "Phrases" interval
\* tier, no interval with text in it, or no audio file of its name
NothingToSegment(file) ==
    \/ ~HasPhrasesTier(file.tiers)
    \/ PhraseIntervals(file.tiers) = <<>>
    \/ ~file.audio_exists

\* C16: an annotation file without "Phrases" interval tier, or whose
\* "Phrases" tier has no interval with non-blank text, or without matching
\* audio file, gets no clip exported, and the loop over the annotation
\* files is not left: no error ends it, it stands ready for the next file.
C16_SkippedFilesExportNothing ==
    /\ split_pc = "loop"
    /\ (files_done > 0 /\ NothingToSegment(textgrid_file)) => ClipsWritten = {}

\* C16 witness: the second file has labelled intervals but no audio and is
\* skipped, after a first file whose clips were exported
C16_Witness ==
    /\ split_pc = "loop"
    /\ files_done = 2
    /\ HasPhrasesTier(textgrid_file.tiers)
    /\ PhraseIntervals(textgrid_file.tiers) # <<>>
    /\ parse_textgrid(textgrid_file.tiers) # <<>>
    /\ ~textgrid_file.audio_exists
    /\ ClipsWritten = {}
    /\ exported # {}

----------------------------------------------------------------------------
(* Claims about the extrema variants (specification SpecPeak) *)

\* the retained extrema of a result, as a set of frames
Retained(result) ==
    {result.valid_maxima[k] : k \in 1..Len(result.valid_maxima)}
        \cup {result.valid_minima[k] : k \in 1..Len(result.valid_minima)}

\* the retained extremum that follows frame a, 0 if a is the last one
Following(result, a) ==
    LET later == {b \in Retained(result) : b > a}
    IN  IF later = {} THEN 0 ELSE CHOOSE b \in later : \A c \in later : b <= c

\* a and b are retained extrema of opposite type
OppositeType(result, a, b) ==
    \/ in_list(a, result.valid_maxima) /\ in_list(b, result.valid_minima)
    \/ in_list(a, result.valid_minima) /\ in_list(b, result.valid_maxima)

\* the retained extrema whose follower is of the opposite type
OppositeStarts(result) ==
    {a \in Retained(result) :
        Following(result, a) # 0 /\ OppositeType(result, a, Following(result, a))}

\* the slopes are those of the lines from a retained extremum to the one
\* that follows it, for the pairs of opposite type and no other, in order
SlopesJoinOpposites(result) ==
    KeptInOrder(result.slopes,
                [a \in OppositeStarts(result) |-> line_slope(log_f0, a, Following(result, a))],
                OppositeStarts(result))

\* C7: in both extrema variants every slope of the output is the slope of
\* the line between two retained extrema of opposite type that are
\* neighbours in index order, one slope per such pair: a max-max or min-min
\* pair of neighbours contributes no slope.
C7_SlopesJoinOppositeNeighbours ==
    /\ peak_pc \in {"thr_change", "done"} => SlopesJoinOpposites(thr_line)
    /\ peak_pc = "done" => SlopesJoinOpposites(thr_change)

\* C7's case: both variants return slopes; the change variant has retained
\* a maximum and a minimum next to each other
C7_Witness ==
    /\ peak_pc = "done"
    /\ log_f0 = <<46000, 46200, 46000, 46400, 46200, 46400, 46000>>
    /\ thr_line.slopes = <<0 - 200, 400>>
    /\ thr_change.valid_maxima = <<4>>
    /\ thr_change.valid_minima = <<5>>
    /\ thr_change.slopes = <<0 - 200>>

\* the candidates of the baseline filter: the local maxima above the
\* baseline and the local minima below it
BaselineCandidates(f) ==
    [maxima |-> {i \in 1..Len(f) : is_local_maximum(f, i) /\ above(f[i], mean_f0(f))},
     minima |-> {i \in 1..Len(f) : is_local_maximum(negated(f), i) /\ below(f[i], mean_f0(f))}]

\* the candidates of the change threshold: the local extrema that differ by
\* the threshold or more from the extremum of their type before them
ChangeCandidates(f) ==
    LET maxima == change_filter(f, find_peaks(f))
        minima == change_filter(f, find_peaks(negated(f)))
    IN  [maxima |-> {maxima[k] : k \in 1..Len(maxima)},
         minima |-> {minima[k] : k \in 1..Len(minima)}]

\* the run of candidate a: the candidates of its type with no candidate of
\* the other type between a and them
RunOf(same, other, a) ==
    {b \in same : \A c \in other : ~(a < c /\ c < b) /\ ~(b < c /\ c < a)}

\* of every run of maxima only the highest is kept, and exactly one frame
MaximaRunsReduced(f, cand, result) ==
    \A a \in cand.maxima :
        LET run == RunOf(cand.maxima, cand.minima, a)
            kept == run \cap Retained(result)
        IN  /\ Cardinality(kept) = 1
            /\ \A k \in kept : \A b \in run : f[b] <= f[k]

\* of every run of minima only the lowest is kept, and exactly one frame
MinimaRunsReduced(f, cand, result) ==
    \A a \in cand.minima :
        LET run == RunOf(cand.minima, cand.maxima, a)
            kept == run \cap Retained(result)
        IN  /\ Cardinality(kept) = 1
            /\ \A k \in kept : \A b \in run : f[b] >= f[k]

\* only candidates are kept, and one per run, the most extreme
RunsReduced(f, cand, result) ==
    /\ Retained(result) \subseteq cand.maxima \cup cand.minima
    /\ MaximaRunsReduced(f, cand, result)
    /\ MinimaRunsReduced(f, cand, result)

\* C23: in both extrema variants, of each maximal run of candidates of one
\* type (no candidate of the other type between them) exactly one is kept,
\* the highest maximum of a run of maxima, the lowest minimum of a run of
\* minima.
C23_OneExtremumPerRun ==
    /\ peak_pc \in {"thr_change", "done"}
          => RunsReduced(log_f0, BaselineCandidates(log_f0), thr_line)
    /\ peak_pc = "done"
          => RunsReduced(log_f0, ChangeCandidates(log_f0), thr_change)

\* the baseline filter alone keeps one extremum of every run
C23_BaselineKeepsOnePerRun ==
    peak_pc \in {"thr_change", "done"}
        => RunsReduced(log_f0, BaselineCandidates(log_f0), thr_line)

\* a run of two maxima above the baseline, the higher of them kept
C23_BaselineRunReached ==
    /\ peak_pc = "done"
    /\ \E a \in BaselineCandidates(log_f0).maxima :
          Cardinality(RunOf(BaselineCandidates(log_f0).maxima,
                            BaselineCandidates(log_f0).minima, a)) >= 2

\* the first retained extremum after frame a that is of the other type
\* than a, 0 if there is none
NextOpposite(result, a) ==
    LET later == {b \in Retained(result) : b > a /\ OppositeType(result, a, b)}
    IN  IF later = {} THEN 0 ELSE CHOOSE b \in later : \A c \in later : b <= c

\* the retained extrema with a retained extremum of the other type after them
FollowedByOpposite(result) ==
    {a \in Retained(result) : NextOpposite(result, a) # 0}

\* one slope for every retained extremum that has an extremum of the other
\* type after it, that of the line to the first such, in order of the starts
SlopesReachNextOpposite(result) ==
    KeptInOrder(result.slopes,
                [a \in FollowedByOpposite(result) |->
                    line_slope(log_f0, a, NextOpposite(result, a))],
                FollowedByOpposite(result))

\* C24: in both extrema variants every retained extremum that has a
\* retained extremum of the opposite type somewhere after it contributes
\* exactly one slope, that of the line from it to the first such extremum,
\* and the slopes come in the index order of their starting extrema.
C24_EveryStartReachesNextOpposite ==
    /\ peak_pc \in {"thr_change", "done"} => SlopesReachNextOpposite(thr_line)
    /\ peak_pc = "done" => SlopesReachNextOpposite(thr_change)

\* the baseline variant alone joins every start to its next opposite
C24_BaselineReachesNextOpposite ==
    peak_pc \in {"thr_change", "done"} => SlopesReachNextOpposite(thr_line)

\* every retained extremum is of the other type than the one after it
Alternates(result) ==
    \A a \in Retained(result) :
        Following(result, a) # 0 => OppositeType(result, a, Following(result, a))

\* one slope less than there are retained extrema, none for fewer than two
OneSlopeLess(result) ==
    Len(result.slopes)
        = IF Cardinality(Retained(result)) < 2 THEN 0
          ELSE Cardinality(Retained(result)) - 1

\* C26: in the baseline-filter variant the retained extrema, in index
\* order, alternate strictly between maximum and minimum for every contour,
\* so the number of slopes is the number of retained extrema minus one, and
\* zero when fewer than two extrema are retained.
C26_BaselineExtremaAlternate ==
    peak_pc \in {"thr_change", "done"}
        => /\ Alternates(thr_line)
           /\ OneSlopeLess(thr_line)
           /\ Len(thr_line.valid_maxima) + Len(thr_line.valid_minima)
                  = Cardinality(Retained(thr_line))

\* C26's case: the candidates hold two maxima with no minimum between
\* them, three or more extrema are retained, and one slope less returned
C26_Witness ==
    /\ peak_pc = "thr_change"
    /\ \E a \in BaselineCandidates(log_f0).maxima :
          Cardinality(RunOf(BaselineCandidates(log_f0).maxima,
                            BaselineCandidates(log_f0).minima, a)) >= 2
    /\ Cardinality(Retained(thr_line)) >= 3
    /\ Len(thr_line.slopes) = Cardinality(Retained(thr_line)) - 1

\* fewer than two extrema retained, no slope
C26_NoSlopeReached ==
    /\ peak_pc = "thr_change"
    /\ Cardinality(Retained(thr_line)) = 1
    /\ thr_line.slopes = <<>>

----------------------------------------------------------------------------
(* Claims about calculate_relevant_statistics (specification SpecStats) *)

\* the keys a record is to have: the five plain ones, the five log ones if
\* is_f0 or is_syllable, the five absolute-log ones if is_delta, each with
\* "_phrase" at its end at phrase level and with nothing otherwise
KeysAsStated(a) ==
    LET sfx == IF a.is_phrase_level THEN "_phrase" ELSE ""
        plain == {"_mean", "_std", "_range", "_min5", "_max95"}
        logs == IF a.is_f0 \/ a.is_syllable
                THEN {"_log_mean", "_log_std", "_log_min5", "_log_max95", "_log_range"}
                ELSE {}
        abslogs == IF a.is_delta
                   THEN {"_abs_log_mean", "_abs_log_std", "_abs_log_min_5",
                         "_abs_log_max_95", "_abs_log_range"}
                   ELSE {}
    IN  {a.stat_name \o k \o sfx : k \in plain \cup logs \cup abslogs}

\* the record of a call that returned has the keys as stated and no other
ReturnedKeysAsStated ==
    stats_result.status = "returned" => DOMAIN stats_result.stats = KeysAsStated(stats_args)

\* C12: for every series and stat name the call returns a record, and the
\* keys of the record are the five plain ones, the five log ones exactly if
\* is_f0 or is_syllable is set, the five absolute-log ones exactly if
\* is_delta is set, all with the suffix "_phrase" exactly at phrase level,
\* and no other key.
C12_RecordHasStatedKeys ==
    stats_result.status # "none" =>
        /\ stats_result.status = "returned"
        /\ DOMAIN stats_result.stats = KeysAsStated(stats_args)

----------------------------------------------------------------------------
(* Claims about get_syllable_duration_statistics (specification SpecSyllable) *)

\* the syllables with a voiced pitch frame inside their interval
VoicedSyllables(a) ==
    {j \in 1..Len(a.syllable_durations) :
        \E k \in 1..Len(a.time_stamps) :
            /\ a.bounds_t[j] <= a.time_stamps[k]
            /\ a.time_stamps[k] < a.bounds_t[j + 1]
            /\ a.f0_values[k] > 100}

\* C14: the durations returned by get_syllable_duration_statistics are
\* exactly the durations of the syllables j that have a pitch frame with
\* bounds[j] <= time stamp < bounds[j+1] and F0 above 100 Hz: as many values
\* as there are such syllables (a dropped syllable leaves no zero behind),
\* each with its input value, in input order.
C14_KeptIffVoicedFrameInBounds ==
    syl_result.status = "returned" =>
        KeptInOrder(syl_result.valid_syllable_durations, syl_args.syllable_durations,
                    VoicedSyllables(syl_args))

\* when the durations are the lengths of the syllables' intervals, every
\* duration kept is strictly positive: a syllable of length zero has no
\* frame inside its bounds
KeptDurationsArePositive ==
    (/\ syl_result.status = "returned"
     /\ syl_args.syllable_durations = syllable_durations_of(syl_args.bounds_t)) =>
        \A i \in 1..Len(syl_result.valid_syllable_durations) :
            syl_result.valid_syllable_durations[i] > 0

\* a syllable of length zero between two voiced syllables is dropped
ZeroLengthSyllableDropped ==
    /\ syl_result.status = "returned"
    /\ syl_args.bounds_t = <<1, 1, 3>>
    /\ syl_args.syllable_durations = <<0, 2>>
    /\ syl_args.f0_values = <<150, 150, 0>>
    /\ syl_result.valid_syllable_durations = <<2>>

\* C14 witness: two syllables of unequal durations; the first has only a
\* frame at exactly 100 Hz inside and a voiced frame on its end bound, and is
\* dropped; the second starts with that voiced frame and is kept.
C14_Witness ==
    /\ syl_result.status = "returned"
    /\ syl_args.syllable_durations = <<3, 7>>
    /\ syl_args.bounds_t = <<1, 2, 3>>
    /\ syl_args.f0_values = <<100, 150, 0>>
    /\ syl_result.valid_syllable_durations = <<7>>

----------------------------------------------------------------------------
(* Claims about get_f0_delta_statistics (specification SpecDelta) *)

C15_DegenerateReached ==
    /\ delta_result.status = "returned"
    /\ delta_args.pitch = <<100, 150, 0>>
    /\ delta_result.value = DegenerateDelta

\* the f0_delta entry the aggregator reads for the phrase of the call
StoredDelta == stored_entry(delta_result.value)

\* C27: whenever get_f0_delta_statistics returns its degenerate output for
\* a phrase (fewer than 2 voiced F0 values), the stored f0_delta entry of
\* the phrase has 3 elements of which the first two are zero, so the
\* aggregator's second test holds (the first, for the empty array, does
\* not): the entry is skipped, counted once, and pooled into no statistic.
C27_DegenerateOutputIsSkipped ==
    (delta_result.status = "returned"
        /\ Cardinality(VoicedFrames(delta_args.pitch)) < 2)
    => /\ delta_result.value = DegenerateDelta
       /\ Len(StoredDelta) = 3 /\ StoredDelta[1] = 0 /\ StoredDelta[2] = 0
       /\ ~is_empty_entry(StoredDelta)
       /\ is_zero_delta_entry(is_delta_of("f0_delta"), StoredDelta)
       /\ entry_is_skipped("f0_delta", StoredDelta)
       /\ SkippedEntry("f0_delta", StoredDelta)
       /\ \A n \in 0..1 :
              /\ Len(PhraseOf(n).f0_delta) = Len(StoredDelta)
              /\ \A k \in 1..2 : PhraseOf(n).f0_delta[k] = StoredDelta[k]

\* C27's case: a phrase with one voiced frame, its degenerate output stored
\* and met by the test for the three-element entry
C27_Witness ==
    /\ delta_result.status = "returned"
    /\ delta_args.pitch = <<0, 150, 100>>
    /\ delta_args.window = DefaultWindow
    /\ delta_result.value = DegenerateDelta
    /\ StoredDelta = <<0, 0, <<>>>>
    /\ entry_is_skipped("f0_delta", StoredDelta)

VoicedLogF0 ==
    LET f0 == MaskSelect(delta_args.pitch,
                         [i \in 1..Len(delta_args.pitch) |-> delta_args.pitch[i] > 100])
    IN  [i \in 1..Len(f0) |-> np_log(f0[i])]

\* the samples at the indices max(i - w, 0) .. min(i + w, n - 1), both ends
\* included, of a series indexed from 0
InclusiveWindow(series, i, w) ==
    SubSeq(series,
           (IF i - w > 0 THEN i - w ELSE 0) + 1,
           (IF i + w < Len(series) - 1 THEN i + w ELSE Len(series) - 1) + 1)

\* C22: the slope recorded for step index i is that of the degree-1 fit
\* over the log-F0 samples at the indices i - w to i + w inclusive, clipped
\* to the series: max(i - w, 0) .. min(i + w, n - 1), the sample at i + w
\* included.
C22_WindowIsInclusive ==
    (delta_result.status = "returned" /\ delta_result.value.shape = "array") =>
        \A i \in 0..(Len(VoicedLogF0) - 1) :
            LET segment == InclusiveWindow(VoicedLogF0, i * delta_args.step, delta_args.window)
            IN  delta_result.value.delta_values[i + 1]
                    = polyfit_slope(np_arange(Len(segment)), segment)

----------------------------------------------------------------------------
(* Claims about collect_data.collect (specification SpecCollect) *)

\* the entry holds features an extractor has computed for the clip, not
\* only what preallocate_results put there
IsFeatureEntry(entry) ==
    \/ "syllable_durations" \in DOMAIN entry
    \/ \E name \in DOMAIN entry : entry[name] # <<>>

\* C17: when the syllable data have no entry for the base name of a clip,
\* the extraction of its syllable durations ends in a lookup failure
\* (KeyError), no default taking the place of the missing entry, and no
\* feature entry is stored for the clip: in the result dictionary it keeps
\* the empty entry of the preallocation, and no .mat file is saved.
C17_MissingSyllableDataIsFatal ==
    (col_file.status # "none" /\ ~col_file.in_syldurs) =>
        /\ col_pc = "raised"
        /\ col_file.status = "raised"
        /\ col_file.error = "KeyError"
        /\ ~IsFeatureEntry(results_dicts[col_file.key])
        /\ mat_file.status = "none"

\* C17 witness: the second reference clip has no entry in the syllable
\* data, after a first clip whose features were stored
C17_Witness ==
    /\ col_pc = "raised"
    /\ col_idx = 2
    /\ ~col_file.in_syldurs
    /\ col_file.key = <<"Reference", "original", "IDS_a", "phrase_2">>
    /\ IsFeatureEntry(results_dicts[<<"Reference", "original", "IDS_a", "phrase_1">>])
    /\ ~IsFeatureEntry(results_dicts[col_file.key])

----------------------------------------------------------------------------
(* Claims about the statistics of a constant series (specification SpecFloat) *)

\* the sums c, c + c, ..., of n elements c are all representable: no
\* addition of the sum rounds
SumsAreExact(c, n) == \A k \in 1..n : fl(k * c) = k * c

\* what holds of the five values of a series of n elements c
ConstantUpToRounding(stats, c, n) ==
    /\ stats.min5 = c
    /\ stats.max95 = c
    /\ stats.range = 0
    /\ Abs(stats.mean - c) <= n * ulp_of(c)
    /\ stats.std <= n * ulp_of(c)
    /\ SumsAreExact(c, n) => stats.mean = c /\ stats.std = 0

----------------------------------------------------------------------------
(* Claims about the older CSV pipeline (specification SpecOld) *)

\* the rows recorded for the file of the last call of get_f0_delta_statistics
RowsOfLastCall ==
    LET rows == old_results[old_delta.file[1]]
    IN  {rows[k] : k \in {j \in 1..Len(rows) : rows[j].file_name = old_delta.file}}

\* C25: get_f0_delta_statistics of the older pipeline returns a tuple of
\* exactly two values, the mean and the standard deviation of the delta
\* values, for every F0 series that reaches it (fewer than 2 values, and 2
\* or more), so that calculate_measurements unpacks it and records both
\* values in the row of the file.
C25_DeltaStatisticsIsAPair ==
    "value" \in DOMAIN old_delta =>
        /\ Len(old_delta.value) = 2
        /\ old_delta.status = "returned"
        /\ \E row \in RowsOfLastCall :
              /\ row.f0_delta_mean = old_delta.value[1]
              /\ row.f0_delta_sd = old_delta.value[2]

----------------------------------------------------------------------------
(* Claims about the three stages in a row (specification SpecPipeline) *)

\* the clips segmentation exported for a recording
ClipsOfRecording(recording) ==
    {clip \in phrase_dir :
        /\ clip.pass = recording.pass
        /\ extract_base_and_phrase(clip.file).base_file
               = base_file_name(recording.pass, recording.file)}

\* the recordings main() has gone through, or all of them before it starts
PipeRecordingSet == {PipeRecordings[k] : k \in 1..Len(PipeRecordings)}

\* a recording without exported clip has no entry in the saved store
NoClipNoEntry ==
    pipe_store.status = "saved" =>
        \A r \in PipeRecordingSet :
            ClipsOfRecording(r) = {} <=> phrases_in_store(pipe_store.DATA, r) = {}

\* C29: a recording for which segmentation exported no clip has no entry
\* in the feature store, the aggregation pass goes over it without a lookup
\* failure, and the rows of all other recordings are written.
C29_RecordingWithoutClipsIsPassedOver ==
    /\ NoClipNoEntry
    /\ pipe_pc # "raised"
    /\ (pipe_pc = "aggregate" /\ pipe_idx = Len(PipeRecordings))
           => pipe_rows = {r.file : r \in {q \in PipeRecordingSet : ClipsOfRecording(q) # {}}}

\* the first part alone: no clip, no entry, and the other way round
C29_NoClipNoEntry == NoClipNoEntry

----------------------------------------------------------------------------
(* Claims about concatenate_clips (specification SpecConcat) *)

\* the speakers that have a file in output_dir, and the numbers of their files
CvSpeakers == {key[1] : key \in DOMAIN cv_output}

CvNumbers(speaker) == {key[2] : key \in {k \in DOMAIN cv_output : k[1] = speaker}}

\* the clients of speaker_id.txt are at most 5, numbered from 1, and no
\* client left out has more clips than one of them
SpeakersAreTopClients ==
    /\ Len(speaker_file) <= TopClients
    /\ CvSpeakers \subseteq 1..Len(speaker_file)
    /\ LET chosen == {top_5_clients(client_clips)[m].client_id :
                           m \in 1..Len(top_5_clients(client_clips))}
       IN  \A n \in 1..Len(speaker_file) :
              /\ speaker_file[n][1] = n
              /\ \A j \in 1..Len(client_clips) :
                     client_clips[j].client_id \notin chosen
                     => client_clips[j].clips <= client_clips[speaker_file[n][2]].clips

\* the files of a speaker are numbered 1..k with k at most 4
NumberedFromOne ==
    \A s \in CvSpeakers :
        /\ CvNumbers(s) = 1..Cardinality(CvNumbers(s))
        /\ Cardinality(CvNumbers(s)) <= MaxSegments

\* a file shorter than 20 s is the last of its speaker, written after the
\* clips of the speaker, and fewer than 4 full segments precede it
ShortOnlyLast ==
    \A key \in DOMAIN cv_output :
        cv_output[key] < SegmentMs
        => /\ key[2] = Cardinality(CvNumbers(key[1]))
           /\ key[2] - 1 < MaxSegments
           /\ \A m \in 1..(key[2] - 1) : cv_output[<<key[1], m>>] >= SegmentMs
           /\ key[1] = client_idx => cv_pc \in {"client", "done"}

\* what a step adds to output_dir
NewFiles == (DOMAIN cv_output') \ (DOMAIN cv_output)

\* a step of the clip loop exports exactly when the counted duration has
\* reached 20 s: then the segment has that length, gets the next number
\* and the accumulator is empty again; otherwise nothing is written
ExportedWhenFull ==
    cv_pc = "clip"
    => /\ \A key \in DOMAIN cv_output : cv_output'[key] = cv_output[key]
       /\ IF NewFiles # {}
          THEN /\ NewFiles = {<<client_idx, segment_count + 1>>}
               /\ segment_count' = segment_count + 1
               /\ cv_output'[<<client_idx, segment_count + 1>>] >= SegmentMs
               /\ cv_output'[<<client_idx, segment_count + 1>>] > current_duration
               /\ current_duration' = 0
               /\ current_segment' = 0
          ELSE /\ current_duration' > current_duration
               /\ current_duration' < SegmentMs
               /\ segment_count' = segment_count

\* the step after the clip loop writes at most the remainder, under the
\* next number
RemainderIsNext ==
    cv_pc = "rest"
    => /\ \A key \in DOMAIN cv_output : cv_output'[key] = cv_output[key]
       /\ NewFiles \subseteq {<<client_idx, segment_count + 1>>}
       /\ NewFiles # {} <=> (segment_count < MaxSegments /\ current_segment > 0)
       /\ \A key \in NewFiles : cv_output'[key] = current_segment

C30_RemainderAfterFullReached ==
    /\ cv_pc = "done"
    /\ CvNumbers(1) = 1..3
    /\ cv_output[<<1, 1>>] >= SegmentMs
    /\ cv_output[<<1, 2>>] >= SegmentMs
    /\ cv_output[<<1, 3>>] < SegmentMs

====
